---- MODULE Spec2Model ----
(***************************************************************************)
(* Magnet-coil flux / voltage kernels of the ElectroSimulations scripts.   *)
(*                                                                         *)
(* Number model.  The scripts compute in floating point.  Here             *)
(*   - lengths, areas, radians and fluxes are fixed-point integers with    *)
(*     FP units to 1.0;                                                    *)
(*   - angles on the rotor are integer ticks, TicksPerRev to a revolution; *)
(*   - rotary time is in ticks too: one time tick is the time in which     *)
(*     the rotor turns one angle tick (ROTATION_SPEED = 1 tick per tick);  *)
(*   - a division by dt is the multiplication by the steps per second.     *)
(***************************************************************************)
EXTENDS Integers, Sequences, FiniteSets, TLC

----------------------------------------------------------------------------
(* Fixed-point arithmetic and the math library                             *)

FP == 10000
PI_FP == 31416

Abs(x) == IF x < 0 THEN -x ELSE x
Min(a, b) == IF a <= b THEN a ELSE b
Max(a, b) == IF a >= b THEN a ELSE b

\* Division rounding toward zero.
Quot(a, b) == IF (a < 0) = (b < 0) THEN Abs(a) \div Abs(b) ELSE -(Abs(a) \div Abs(b))
MulFP(a, b) == Quot(a * b, FP)

RECURSIVE SumSeq(_)
SumSeq(s) == IF s = <<>> THEN 0 ELSE Head(s) + SumSeq(Tail(s))

SinTaylor(x) ==
    LET x2 == MulFP(x, x)
        t3 == Quot(MulFP(x, x2), 6)
        t5 == Quot(MulFP(t3, x2), 20)
        t7 == Quot(MulFP(t5, x2), 42)
        t9 == Quot(MulFP(t7, x2), 72)
    IN  x - t3 + t5 - t7 + t9

CosTaylor(x) ==
    LET x2 == MulFP(x, x)
        t2 == Quot(x2, 2)
        t4 == Quot(MulFP(t2, x2), 12)
        t6 == Quot(MulFP(t4, x2), 30)
        t8 == Quot(MulFP(t6, x2), 56)
        t10 == Quot(MulFP(t8, x2), 90)
    IN  FP - t2 + t4 - t6 + t8 - t10

\* math.sin / math.cos of an angle in FP radians.
RECURSIVE Sin(_)
Sin(x) ==
    IF x < 0 THEN -Sin(-x)
    ELSE IF x >= 2 * PI_FP THEN Sin(x % (2 * PI_FP))
    ELSE IF x > PI_FP THEN -Sin(x - PI_FP)
    ELSE IF 2 * x > PI_FP THEN SinTaylor(PI_FP - x)
    ELSE SinTaylor(x)

RECURSIVE Cos(_)
Cos(x) ==
    IF x < 0 THEN Cos(-x)
    ELSE IF x >= 2 * PI_FP THEN Cos(x % (2 * PI_FP))
    ELSE IF x > PI_FP THEN -Cos(x - PI_FP)
    ELSE IF 2 * x > PI_FP THEN -CosTaylor(PI_FP - x)
    ELSE CosTaylor(x)

RECURSIVE AcosSearch(_, _, _)
AcosSearch(c, lo, hi) ==
    IF hi - lo <= 1
    THEN (IF Abs(Cos(lo) - c) <= Abs(Cos(hi) - c) THEN lo ELSE hi)
    ELSE LET mid == (lo + hi) \div 2
         IN  IF Cos(mid) > c THEN AcosSearch(c, mid, hi) ELSE AcosSearch(c, lo, mid)

\* What stands for the ValueError ("math domain error") of math.acos and
\* math.sqrt: no flux or area is this small.
ValueError == -100000000

\* math.acos of c (FP units): defined on [-1, 1] only.
Acos(c) == IF c > FP \/ c < -FP THEN ValueError ELSE AcosSearch(c, 0, PI_FP)

RECURSIVE SqrtSearch(_, _, _)
SqrtSearch(n, lo, hi) ==
    IF hi - lo <= 1 THEN lo
    ELSE LET mid == (lo + hi) \div 2
         IN  IF mid * mid <= n THEN SqrtSearch(n, mid, hi) ELSE SqrtSearch(n, lo, mid)

\* math.sqrt of v (FP units): defined for v >= 0 only.
Sqrt(v) == IF v < 0 THEN ValueError ELSE SqrtSearch(v * FP, 0, 46341)

----------------------------------------------------------------------------
(* The angle grid                                                          *)

\* Table samples per twelfth of a revolution (the resolution of the model).
SamplesPerTwelfth == 1
\* Angle ticks per table sample: the resolution of fractional_idx.
TicksPerSample == 4

lookup_steps == 12 * SamplesPerTwelfth
TicksPerRev == lookup_steps * TicksPerSample
TWO_PI == TicksPerRev
PI == TicksPerRev \div 2
DEGREES90 == TicksPerRev \div 4
DEGREES120 == TicksPerRev \div 3

\* An angle in ticks as FP radians.
Radians(theta) == Quot(theta * 2 * PI_FP, TicksPerRev)

----------------------------------------------------------------------------
(* Geometry (generator.py, spinning_circle_simulation.py)                  *)

get_theta_distance(theta1, theta2) ==
    LET abs_diff == Abs(theta1 - theta2)
    IN  Min(abs_diff, TWO_PI - abs_diff)

\* term1 - term2 of get_area_between_circle, from the values of math.acos
\* and math.sqrt (either may have raised).
lens_terms(d, r, acos, sqrt) ==
    LET term1 == MulFP(2 * MulFP(r, r), acos)
        term2 == MulFP(Quot(d, 2), sqrt)
    IN  IF acos = ValueError \/ sqrt = ValueError THEN ValueError
        ELSE term1 - term2

\* get_area_between_circle from the chord d between the two centres on.
lens_area(d, r) ==
    IF d >= 2 * r THEN 0
    ELSE IF d = 0 THEN MulFP(PI_FP, MulFP(r, r))
    ELSE lens_terms(d, r, Acos(Quot(d * FP, 2 * r)), Sqrt(4 * MulFP(r, r) - MulFP(d, d)))

get_area_between_circle(theta_dist, orbit_radius, r) ==
    lens_area(MulFP(2 * orbit_radius, Sin(Quot(Radians(theta_dist), 2))), r)

\* total_flux += area for a north pole, -= area for a south pole.
signed_area(north_pole, area) == IF north_pole THEN area ELSE -area

\* The sum of the magnets' contributions; a ValueError raised for one of
\* them ends the call.
sum_or_raise(areas) ==
    IF \E k \in DOMAIN areas : Abs(areas[k]) = -ValueError THEN ValueError
    ELSE SumSeq(areas)

----------------------------------------------------------------------------
VARIABLES
    prog,                 \* which script (or which kernel under call) this run is
    pc,                   \* its position
    magnet_angles_start,  \* rotary scenes: start angle of each magnet (ticks)
    magnet_polarities,    \* rotary scenes: TRUE for North
    flux_lookup,          \* phase scenes: the raw one-revolution table
    flux_lookup_smoothed, \* phase scenes: the table after gaussian_filter1d
    coil_i,               \* index of the coil being processed
    flux_now,             \* phase scenes: last flux_now of the trace loop
    flux_prev,            \* phase scenes: last flux_prev of the trace loop
    coil_data,            \* phase scenes: coil index -> finished voltage trace
    step,                 \* loop counter of the running sweep
    voltage_trace,        \* voltages of the running sweep, one per step
    flux_data,            \* fluxes of the running sweep, one per step
    prev_flux,            \* calculate_voltage_trace_custom: prev_flux (<<>> is None)
    magnet_collection,    \* spinning_circle_simulation.py: the Magnet objects
    coil_collection,      \* spinning_circle_simulation.py: the Coil objects
    magnets,              \* simulation.py: the Magnet objects with their sample points
    current_t,            \* simulation.py: current_t
    last_flux,            \* simulation.py: last_flux
    first,                \* simulation.py: first
    args,                 \* kernel calls: the arguments of the last call
    result,               \* kernel calls: what the last call returned
    prev_args,            \* kernel calls: the arguments of the call before
    prev_result,          \* kernel calls: what the call before returned
    magnet_objects,       \* magnet_stream_scene.py: StreamManager.magnet_objects
    magnet_counter,       \* magnet_stream_scene.py: StreamManager.magnet_counter
    coil_width_value,     \* magnet_stream_scene.py: the value of self.coil_width
    global_time,          \* magnet_stream_scene.py: self._global_time (ms)
    data_time,            \* magnet_stream_scene.py: self.data_time
    data_flux,            \* magnet_stream_scene.py: self.data_flux
    data_volt,            \* magnet_stream_scene.py: self.data_volt
    times,                \* linear_simulation.py: times
    fluxes,               \* linear_simulation.py: fluxes[k][i]
    voltages,             \* linear_simulation.py: voltages[k][i]
    time_tracker          \* SpinningGenerator: the value of time_tracker (ticks)

ctlVars == <<prog, pc>>
magnetVars == <<magnet_angles_start, magnet_polarities>>
phaseVars == <<flux_lookup, flux_lookup_smoothed, coil_i, flux_now, flux_prev, coil_data>>
sweepVars == <<step, voltage_trace, flux_data, prev_flux>>
rotorVars == <<magnet_collection, coil_collection>>
simVars == <<magnets, current_t, last_flux, first>>
callVars == <<args, result, prev_args, prev_result>>
streamVars ==
    <<magnet_objects, magnet_counter, coil_width_value, global_time, data_time, data_flux,
      data_volt>>
linearVars == <<times, fluxes, voltages>>

vars == <<ctlVars, magnetVars, phaseVars, sweepVars, rotorVars, simVars, callVars,
          streamVars, linearVars, time_tracker>>

\* What a run leaves untouched starts as follows.
NoMagnets == magnet_angles_start = <<>> /\ magnet_polarities = <<>>
NoPhase ==
    /\ flux_lookup = <<>>
    /\ flux_lookup_smoothed = <<>>
    /\ coil_i = 0
    /\ flux_now = 0
    /\ flux_prev = 0
    /\ coil_data = <<>>
NoSweep == step = 0 /\ voltage_trace = <<>> /\ flux_data = <<>> /\ prev_flux = <<>>
NoRotor == magnet_collection = <<>> /\ coil_collection = <<>>
NoSim == magnets = <<>> /\ current_t = 0 /\ last_flux = 0 /\ first = TRUE
NoCalls == args = <<>> /\ result = 0 /\ prev_args = <<>> /\ prev_result = 0
NoStream ==
    /\ magnet_objects = <<>>
    /\ magnet_counter = 0
    /\ coil_width_value = 0
    /\ global_time = 0
    /\ data_time = <<>>
    /\ data_flux = <<>>
    /\ data_volt = <<>>
NoLinear == times = <<>> /\ fluxes = <<>> /\ voltages = <<>>
NoPlayback == time_tracker = 0

----------------------------------------------------------------------------
(* scene_phase_shift.py and scene_phase_static.py                          *)

DISK_RADIUS == 30000
MAGNET_RADIUS == 8000
OFFSET_FROM_EDGE == 2000
MAGNET_PATH_RADIUS == DISK_RADIUS - OFFSET_FROM_EDGE - MAGNET_RADIUS
NUM_MAGNETS == 2
ROTATION_SPEED == 1

\* One second: the rotor turns a quarter revolution (0.5 * PI rad/s).
Second == DEGREES90 \div ROTATION_SPEED

\* Magnet setup loop: theta = pi/2 - i * (2 pi / n), polarity i % 2 == 0.
MagnetAnglesStart(n) == [k \in 1..n |-> DEGREES90 - (k - 1) * (TWO_PI \div n)]
\* Variant of MagnetPolarities with north poles only.
MagnetPolarities_all_north(n) == [k \in 1..n |-> TRUE]
MagnetPolarities(n) == [k \in 1..n |-> (k - 1) % 2 = 0]

\* Variant of calculate_flux_at_instant that starts from the value of the
\* call before instead of from 0.
calculate_flux_at_instant_accumulating(t, coil_angle) ==
    LET angle_delta == -ROTATION_SPEED * t
        contribution(k) ==
            LET current_mag_angle == (magnet_angles_start[k] + angle_delta) % TWO_PI
                dist == get_theta_distance(coil_angle, current_mag_angle)
                area == get_area_between_circle(dist, MAGNET_PATH_RADIUS, MAGNET_RADIUS)
            IN  signed_area(magnet_polarities[k], area)
    IN  result + SumSeq([k \in 1..Len(magnet_angles_start) |-> contribution(k)])

\* Signed overlap of every magnet with a coil at coil_angle, the rotor
\* turned clockwise by ROTATION_SPEED * t.
calculate_flux_at_instant(t, coil_angle) ==
    LET angle_delta == -ROTATION_SPEED * t
        contribution(k) ==
            LET current_mag_angle == (magnet_angles_start[k] + angle_delta) % TWO_PI
                dist == get_theta_distance(coil_angle, current_mag_angle)
                area == get_area_between_circle(dist, MAGNET_PATH_RADIUS, MAGNET_RADIUS)
            IN  signed_area(magnet_polarities[k], area)
    IN  sum_or_raise([k \in 1..Len(magnet_angles_start) |-> contribution(k)])

\* scipy.ndimage.gaussian_filter1d at the model's resolution: the kernel
\* (1, 2, 1) / 4, the table extended by reflection (the default mode) or
\* cyclically (mode = "wrap").
gaussian_filter1d(input, mode) ==
    LET n == Len(input)
        at(k) == IF k < 1 THEN (IF mode = "wrap" THEN input[n] ELSE input[1])
                 ELSE IF k > n THEN (IF mode = "wrap" THEN input[1] ELSE input[n])
                 ELSE input[k]
    IN  [k \in 1..n |-> Quot(at(k - 1) + 2 * at(k) + at(k + 1), 4)]

\* Variant of InterpolateTable that clamps the upper index at the end of the
\* table instead of wrapping to index 0.
InterpolateTable_clamped(table, phase) ==
    LET idx_low == (phase \div TicksPerSample) % lookup_steps
        idx_high == Min(idx_low + 1, lookup_steps - 1)
        alpha == phase % TicksPerSample
    IN  TicksPerSample * table[idx_low + 1]
            + alpha * (table[idx_high + 1] - table[idx_low + 1])

\* The table lookup both scenes share: linear interpolation at `phase`
\* (ticks in [0, 2 pi)).  The result is in quarters of a flux unit
\* (TicksPerSample times the interpolated flux), which keeps alpha exact.
InterpolateTable(table, phase) ==
    LET idx_low == (phase \div TicksPerSample) % lookup_steps
        idx_high == (idx_low + 1) % lookup_steps
        alpha == phase % TicksPerSample
        flux_low == table[idx_low + 1]
        flux_high == table[idx_high + 1]
    IN  TicksPerSample * flux_low + alpha * (flux_high - flux_low)

\* scene_phase_shift.py: effective_time = t + (PI/2 - coil_angle) / ROTATION_SPEED
shift_phase(t, coil_angle) ==
    LET effective_time == t + Quot(DEGREES90 - coil_angle, ROTATION_SPEED)
    IN  (effective_time * ROTATION_SPEED) % TWO_PI

get_smoothed_flux_at_angle(t, coil_angle) ==
    InterpolateTable(flux_lookup_smoothed, shift_phase(t, coil_angle))

\* scene_phase_static.py: effective_time = t - (PI/2 - coil_angle) / ROTATION_SPEED
static_phase(t, coil_angle) ==
    LET effective_time == t - Quot(DEGREES90 - coil_angle, ROTATION_SPEED)
    IN  (effective_time * ROTATION_SPEED) % TWO_PI

static_get_smoothed_flux_at_angle(t, coil_angle) ==
    InterpolateTable(flux_lookup_smoothed, static_phase(t, coil_angle))

\* Time parameters of the sweeps.  scene_phase_shift: 15 s; scene_phase_static:
\* 4 s (one revolution); ProgressiveMagnetScene (calculate_voltage_trace_custom)
\* and SinglePhaseScene (calculate_physics_data): 8 s (two revolutions).
SIMULATION_TIME(p) ==
    IF p = "phase_shift" THEN 15 * Second
    ELSE IF p = "phase_static" THEN 4 * Second
    ELSE 8 * Second
\* Steps of a sweep: the scenes' 2500 to 5000 steps at the model's resolution.
PHYSICS_STEPS(p) ==
    IF p = "phase_shift" THEN 30 * SamplesPerTwelfth
    ELSE IF p = "phase_static" THEN 12 * SamplesPerTwelfth
    ELSE 2 * TicksPerRev
dt(p) == SIMULATION_TIME(p) \div PHYSICS_STEPS(p)
\* 1 / dt
StepsPerSecond(p) == Second \div dt(p)

\* scene_phase_shift.py motion profiles (offsets clockwise from 12 o'clock).
MOVE_START == 2 * Second
MOVE_DURATION == 8 * Second
TARGET_OFFSET == DEGREES90

stationary_profile(t) == 0

moving_1x_profile(t) ==
    IF t < MOVE_START THEN 0
    ELSE IF t < MOVE_START + MOVE_DURATION
         THEN Quot((t - MOVE_START) * TARGET_OFFSET, MOVE_DURATION)
         ELSE TARGET_OFFSET

moving_2x_profile(t) == 2 * moving_1x_profile(t)

NumCoils == 3

\* coils_config of either scene: the offset of coil c from 12 o'clock at t.
CoilOffset(p, c, t) ==
    IF p = "phase_shift"
    THEN (IF c = 1 THEN stationary_profile(t)
          ELSE IF c = 2 THEN moving_1x_profile(t) ELSE moving_2x_profile(t))
    ELSE (c - 1) * DEGREES120

CoilAngle(p, c, t) == DEGREES90 - CoilOffset(p, c, t)

\* Variant of QueryPhase that leaves out the reduction modulo 2 pi.
QueryPhase_unreduced(p, t, coil_angle) ==
    IF p = "phase_shift" THEN (t + Quot(DEGREES90 - coil_angle, ROTATION_SPEED)) * ROTATION_SPEED
    ELSE (t - Quot(DEGREES90 - coil_angle, ROTATION_SPEED)) * ROTATION_SPEED

\* The table phase either scene queries for a coil at coil_angle at time t.
QueryPhase(p, t, coil_angle) ==
    IF p = "phase_shift" THEN shift_phase(t, coil_angle) ELSE static_phase(t, coil_angle)

SmoothedFlux(p, t, coil_angle) ==
    IF p = "phase_shift" THEN get_smoothed_flux_at_angle(t, coil_angle)
    ELSE static_get_smoothed_flux_at_angle(t, coil_angle)

PhaseProgs == {"phase_shift", "phase_static"}

\* for i in range(lookup_steps): flux_lookup.append(calculate_flux_at_instant(t_lookup, PI/2))
BuildLookup ==
    /\ prog \in PhaseProgs
    /\ pc = "build"
    /\ Len(flux_lookup) < lookup_steps
    /\ LET i == Len(flux_lookup)
           t_lookup == Quot(i * TWO_PI, lookup_steps * ROTATION_SPEED)
       IN  flux_lookup' = Append(flux_lookup, calculate_flux_at_instant(t_lookup, DEGREES90))
    /\ UNCHANGED <<ctlVars, magnetVars, flux_lookup_smoothed, coil_i, flux_now, flux_prev,
                   coil_data, sweepVars, rotorVars, simVars, callVars>>
    /\ UNCHANGED <<streamVars, linearVars, time_tracker>>

\* flux_lookup_smoothed = gaussian_filter1d(flux_lookup, ...)
SmoothLookup ==
    /\ prog \in PhaseProgs
    /\ pc = "build"
    /\ Len(flux_lookup) = lookup_steps
    /\ flux_lookup_smoothed' =
           gaussian_filter1d(flux_lookup, IF prog = "phase_static" THEN "wrap" ELSE "reflect")
    /\ pc' = "trace"
    /\ UNCHANGED <<prog, magnetVars, flux_lookup, coil_i, flux_now, flux_prev, coil_data,
                   sweepVars, rotorVars, simVars, callVars>>
    /\ UNCHANGED <<streamVars, linearVars, time_tracker>>

\* Variant of TraceStep that smooths the table again at every step.
TraceStep_resmoothing ==
    /\ prog \in PhaseProgs
    /\ pc = "trace"
    /\ step < PHYSICS_STEPS(prog)
    /\ LET t == step * dt(prog)
           coil_angle == CoilAngle(prog, coil_i, t)
           now == SmoothedFlux(prog, t, coil_angle)
           prev == SmoothedFlux(prog, t - dt(prog), coil_angle)
       IN  IF step > 0
           THEN /\ flux_now' = now
                /\ flux_prev' = prev
                /\ voltage_trace' = Append(voltage_trace, (now - prev) * StepsPerSecond(prog))
           ELSE /\ UNCHANGED <<flux_now, flux_prev>>
                /\ voltage_trace' = Append(voltage_trace, 0)
    /\ step' = step + 1
    /\ flux_lookup_smoothed' = gaussian_filter1d(flux_lookup_smoothed, "wrap")
    /\ UNCHANGED <<ctlVars, magnetVars, flux_lookup, coil_i, coil_data,
                   flux_data, prev_flux, rotorVars, simVars, callVars>>
    /\ UNCHANGED <<streamVars, linearVars, time_tracker>>

\* One iteration of `for step in range(PHYSICS_STEPS)` for the current coil.
TraceStep ==
    /\ prog \in PhaseProgs
    /\ pc = "trace"
    /\ step < PHYSICS_STEPS(prog)
    /\ LET t == step * dt(prog)
           coil_angle == CoilAngle(prog, coil_i, t)
           now == SmoothedFlux(prog, t, coil_angle)
           prev == SmoothedFlux(prog, t - dt(prog), coil_angle)
       IN  IF step > 0
           THEN /\ flux_now' = now
                /\ flux_prev' = prev
                /\ voltage_trace' = Append(voltage_trace, (now - prev) * StepsPerSecond(prog))
           ELSE /\ UNCHANGED <<flux_now, flux_prev>>
                /\ voltage_trace' = Append(voltage_trace, 0)
    /\ step' = step + 1
    /\ UNCHANGED <<ctlVars, magnetVars, flux_lookup, flux_lookup_smoothed, coil_i, coil_data,
                   flux_data, prev_flux, rotorVars, simVars, callVars>>
    /\ UNCHANGED <<streamVars, linearVars, time_tracker>>

\* coil_data[coil_cfg.name] = voltage_trace, then the next coil.
StoreTrace ==
    /\ prog \in PhaseProgs
    /\ pc = "trace"
    /\ step = PHYSICS_STEPS(prog)
    /\ coil_data' = [coil_data EXCEPT ![coil_i] = voltage_trace]
    /\ IF coil_i < NumCoils
       THEN /\ coil_i' = coil_i + 1
            /\ step' = 0
            /\ voltage_trace' = <<>>
            /\ pc' = pc
       ELSE /\ pc' = "done"
            /\ UNCHANGED <<coil_i, step, voltage_trace>>
    /\ UNCHANGED <<prog, magnetVars, flux_lookup, flux_lookup_smoothed, flux_now, flux_prev,
                   flux_data, prev_flux, rotorVars, simVars, callVars>>
    /\ UNCHANGED <<streamVars, linearVars, time_tracker>>

InitPhase ==
    /\ prog \in PhaseProgs
    /\ pc = "build"
    /\ magnet_angles_start = MagnetAnglesStart(NUM_MAGNETS)
    /\ magnet_polarities = MagnetPolarities(NUM_MAGNETS)
    /\ flux_lookup = <<>>
    /\ flux_lookup_smoothed = <<>>
    /\ coil_i = 1
    /\ flux_now = 0
    /\ flux_prev = 0
    /\ coil_data = [c \in 1..NumCoils |-> <<>>]
    /\ NoSweep
    /\ NoRotor
    /\ NoSim
    /\ NoCalls
    /\ NoStream
    /\ NoLinear
    /\ NoPlayback

----------------------------------------------------------------------------
(* Calls of the rotary kernels with arguments drawn from bounded sets      *)

\* Angles a caller may pass: every sample angle from one revolution below 0
\* to two revolutions above (coil angles such as PI/2 - offset go negative).
AngleInputs == {k * TicksPerSample : k \in (-lookup_steps)..(2 * lookup_steps)}

\* Sample times within one revolution.
TimeInputs == {k * TicksPerSample : k \in 0..(lookup_steps - 1)}

\* Coil angles of the flux calls: 12 o'clock and 3 o'clock.
CoilAngleInputs == {DEGREES90, 0}

\* result = get_theta_distance(theta1, theta2), the arguments drawn at the start.
CallThetaDistance ==
    /\ prog = "theta_distance"
    /\ pc = "call"
    /\ result' = get_theta_distance(args[1], args[2])
    /\ pc' = "returned"
    /\ UNCHANGED <<prog, magnetVars, phaseVars, sweepVars, rotorVars, simVars,
                   args, prev_args, prev_result>>
    /\ UNCHANGED <<streamVars, linearVars, time_tracker>>

\* result = calculate_flux_at_instant(t, coil_angle); the call before is
\* kept in prev_args / prev_result.
CallFluxAtInstant ==
    /\ prog = "flux_at_instant"
    /\ \E t \in TimeInputs, coil_angle \in CoilAngleInputs :
          /\ args' = <<t, coil_angle>>
          /\ result' = calculate_flux_at_instant(t, coil_angle)
    /\ prev_args' = args
    /\ prev_result' = result
    /\ UNCHANGED <<ctlVars, magnetVars, phaseVars, sweepVars, rotorVars, simVars>>
    /\ UNCHANGED <<streamVars, linearVars, time_tracker>>

InitCalls ==
    /\ \/ /\ prog = "theta_distance"
          /\ NoMagnets
          /\ args \in AngleInputs \X AngleInputs
       \/ /\ prog = "flux_at_instant"
          /\ magnet_angles_start = MagnetAnglesStart(NUM_MAGNETS)
          /\ magnet_polarities = MagnetPolarities(NUM_MAGNETS)
          /\ args = <<>>
    /\ pc = "call"
    /\ result = 0
    /\ prev_args = <<>>
    /\ prev_result = 0
    /\ NoPhase
    /\ NoSweep
    /\ NoRotor
    /\ NoSim
    /\ NoStream
    /\ NoLinear
    /\ NoPlayback

----------------------------------------------------------------------------
(* video_1: the linear track, a disc passing a strip-shaped coil window    *)
(* (verify_flux_values.py, magnet_alternating_simulation.py)               *)

\* if x > 0: return pi * r**2 - cap_area; return cap_area
segment_from_cap(x, disc_area, cap_area) == IF x > 0 THEN disc_area - cap_area ELSE cap_area

\* Variant of circle_segment_area that returns the cap on either side of
\* the centre (the `x > 0` case dropped).
circle_segment_area_cap_only(r, x) ==
    IF x <= -r THEN 0
    ELSE IF x >= r THEN MulFP(PI_FP, MulFP(r, r))
    ELSE LET d == Abs(x)
         IN  MulFP(MulFP(r, r), Acos(Quot(d * FP, r)))
                 - MulFP(d, Sqrt(MulFP(r, r) - MulFP(d, d)))

\* Variant of circle_segment_area whose full disc is pi * r (the square dropped).
circle_segment_area_unsquared(r, x) ==
    IF x <= -r THEN 0
    ELSE IF x >= r THEN MulFP(PI_FP, r)
    ELSE LET d == Abs(x)
             cap_area == MulFP(MulFP(r, r), Acos(Quot(d * FP, r)))
                         - MulFP(d, Sqrt(MulFP(r, r) - MulFP(d, d)))
         IN  segment_from_cap(x, MulFP(PI_FP, r), cap_area)

\* Area of the disc of radius r left of the vertical line at x (disc centre 0).
circle_segment_area(r, x) ==
    IF x <= -r THEN 0
    ELSE IF x >= r THEN MulFP(PI_FP, MulFP(r, r))
    ELSE LET d == Abs(x)
             cap_area == MulFP(MulFP(r, r), Acos(Quot(d * FP, r)))
                         - MulFP(d, Sqrt(MulFP(r, r) - MulFP(d, d)))
         IN  segment_from_cap(x, MulFP(PI_FP, MulFP(r, r)), cap_area)

\* Variant of calculate_single_magnet_flux that drops the sign of the field.
calculate_single_magnet_flux_unsigned(magnet_center_x, coil_width, magnet_radius, b_field_strength) ==
    LET rel_x_left == -Quot(coil_width, 2) - magnet_center_x
        rel_x_right == Quot(coil_width, 2) - magnet_center_x
        area == circle_segment_area(magnet_radius, rel_x_right)
                - circle_segment_area(magnet_radius, rel_x_left)
    IN  MulFP(Abs(b_field_strength), area)

calculate_single_magnet_flux(magnet_center_x, coil_width, magnet_radius, b_field_strength) ==
    LET x_left_coil == -Quot(coil_width, 2)
        x_right_coil == Quot(coil_width, 2)
        rel_x_left == x_left_coil - magnet_center_x
        rel_x_right == x_right_coil - magnet_center_x
        area == circle_segment_area(magnet_radius, rel_x_right)
                - circle_segment_area(magnet_radius, rel_x_left)
    IN  MulFP(b_field_strength, area)

\* magnet_data: sequence of <<center_x, b_str>>.
calculate_total_flux(magnet_data, coil_width, magnet_radius) ==
    LET cutoff == Quot(coil_width, 2) + magnet_radius + FP \div 10
        flux(k) ==
            IF Abs(magnet_data[k][1]) < cutoff
            THEN calculate_single_magnet_flux(magnet_data[k][1], coil_width,
                                              magnet_radius, magnet_data[k][2])
            ELSE 0
    IN  SumSeq([k \in 1..Len(magnet_data) |-> flux(k)])

\* The grid the calls are drawn from: lengths in steps of 0.1.
GridStep == FP \div 10
MaxCenter == 8
MaxHalfWidth == 10
CenterInputs == {k * GridStep : k \in (-MaxCenter)..MaxCenter}
WidthInputs == {2 * k * GridStep : k \in 1..MaxHalfWidth}
RadiusInputs == {3 * GridStep, 5 * GridStep}
StrengthInputs == {FP, -FP}

\* result = calculate_single_magnet_flux(...): the first call with any
\* arguments, each later one with the window of the call before widened by
\* one grid step to the left, to the right, or both (magnet unchanged).
CallSingleMagnetFlux ==
    /\ prog = "single_magnet_flux"
    /\ \E magnet_center_x \in CenterInputs, coil_width \in WidthInputs,
          magnet_radius \in RadiusInputs, b_field_strength \in StrengthInputs :
          /\ \/ args = <<>>
             \/ /\ args # <<>>
                /\ magnet_radius = args[3]
                /\ b_field_strength = args[4]
                /\ coil_width = args[2] + 2 * GridStep
                /\ magnet_center_x - args[1] \in {-GridStep, 0, GridStep}
          /\ args' = <<magnet_center_x, coil_width, magnet_radius, b_field_strength>>
          /\ result' = calculate_single_magnet_flux(magnet_center_x, coil_width,
                                                    magnet_radius, b_field_strength)
    /\ prev_args' = args
    /\ prev_result' = result
    /\ UNCHANGED <<ctlVars, magnetVars, phaseVars, sweepVars, rotorVars, simVars>>
    /\ UNCHANGED <<streamVars, linearVars, time_tracker>>

\* result = calculate_total_flux(magnet_data, coil_width, magnet_radius) for
\* the two-magnet list drawn at the start.
CallTotalFlux ==
    /\ prog = "total_flux"
    /\ pc = "call"
    /\ result' = calculate_total_flux(args[1], args[2], args[3])
    /\ pc' = "returned"
    /\ UNCHANGED <<prog, magnetVars, phaseVars, sweepVars, rotorVars, simVars,
                   args, prev_args, prev_result>>
    /\ UNCHANGED <<streamVars, linearVars, time_tracker>>

\* Two-magnet lists: any two centres, any two polarities.
MagnetDataInputs ==
    {<<<<x1, b1>>, <<x2, b2>>>> : x1 \in CenterInputs, x2 \in CenterInputs,
                                 b1 \in StrengthInputs, b2 \in StrengthInputs}

InitStrip ==
    /\ \/ /\ prog = "single_magnet_flux"
          /\ args = <<>>
       \/ /\ prog = "total_flux"
          /\ args \in MagnetDataInputs \X {2 * GridStep, 10 * GridStep, 20 * GridStep}
                                       \X {5 * GridStep}
    /\ pc = "call"
    /\ result = 0
    /\ prev_args = <<>>
    /\ prev_result = 0
    /\ NoMagnets
    /\ NoPhase
    /\ NoSweep
    /\ NoRotor
    /\ NoSim
    /\ NoStream
    /\ NoLinear
    /\ NoPlayback

----------------------------------------------------------------------------
(* scene_single_coil_4mag.py: calculate_voltage_trace_custom               *)

\* influence_width = math.pi / 6
influence_width == PI \div 6

\* while angle_diff > pi: -= 2 pi;  while angle_diff < -pi: += 2 pi
RECURSIVE normalize_angle_diff(_)
normalize_angle_diff(angle_diff) ==
    IF angle_diff > PI THEN normalize_angle_diff(angle_diff - TWO_PI)
    ELSE IF angle_diff < -PI THEN normalize_angle_diff(angle_diff + TWO_PI)
    ELSE angle_diff

\* Variant of custom_total_flux with the plain cosine in place of the raised
\* one.
custom_total_flux_plain_cosine(t, polarities, coil_angle, amplitude) ==
    LET angle_delta == -ROTATION_SPEED * t
        contribution(k) ==
            LET mag_angle == (magnet_angles_start[k] + angle_delta) % TWO_PI
                angle_diff == normalize_angle_diff(mag_angle - coil_angle)
                flux_contribution ==
                    MulFP(amplitude, Cos(Quot(PI_FP * angle_diff, influence_width)))
            IN  IF Abs(angle_diff) >= influence_width THEN 0
                ELSE IF polarities[k] THEN flux_contribution
                ELSE -flux_contribution
    IN  SumSeq([k \in 1..Len(magnet_angles_start) |-> contribution(k)])

\* Variant of custom_total_flux without the influence-zone test.
custom_total_flux_no_cutoff(t, polarities, coil_angle, amplitude) ==
    LET angle_delta == -ROTATION_SPEED * t
        contribution(k) ==
            LET mag_angle == (magnet_angles_start[k] + angle_delta) % TWO_PI
                angle_diff == normalize_angle_diff(mag_angle - coil_angle)
                flux_contribution ==
                    MulFP(amplitude,
                          Quot(FP + Cos(Quot(PI_FP * angle_diff, influence_width)), 2))
            IN  IF polarities[k] THEN flux_contribution ELSE -flux_contribution
    IN  SumSeq([k \in 1..Len(magnet_angles_start) |-> contribution(k)])

\* total_flux of one step: the localized raised-cosine model.
custom_total_flux(t, polarities, coil_angle, amplitude) ==
    LET angle_delta == -ROTATION_SPEED * t
        contribution(k) ==
            LET mag_angle == (magnet_angles_start[k] + angle_delta) % TWO_PI
                angle_diff == normalize_angle_diff(mag_angle - coil_angle)
                flux_contribution ==
                    MulFP(amplitude,
                          Quot(FP + Cos(Quot(PI_FP * angle_diff, influence_width)), 2))
            IN  IF Abs(angle_diff) >= influence_width THEN 0
                ELSE IF polarities[k] THEN flux_contribution
                ELSE -flux_contribution
    IN  SumSeq([k \in 1..Len(magnet_angles_start) |-> contribution(k)])

\* voltage = -(total_flux - prev_flux) / dt, 0.0 while prev_flux is None
custom_voltage(total_flux, prev) ==
    IF prev # <<>>
    THEN -(total_flux - prev[1]) * StepsPerSecond("voltage_trace_custom")
    ELSE 0

\* The configurations of ProgressiveMagnetScene: 1, 2 and 4 magnets,
\* coil_angle_static = PI / 2, amplitude = 10.0.
CustomConfigs ==
    {<<1, <<TRUE>>, DEGREES90, 10 * FP>>,
     <<2, <<TRUE, FALSE>>, DEGREES90, 10 * FP>>,
     <<4, <<TRUE, FALSE, TRUE, FALSE>>, DEGREES90, 10 * FP>>}

\* One iteration of `for step in range(steps)`.
CustomStep ==
    /\ prog = "voltage_trace_custom"
    /\ pc = "sweep"
    /\ step < PHYSICS_STEPS(prog)
    /\ LET t == step * dt(prog)
           total_flux == custom_total_flux(t, args[2], args[3], args[4])
       IN  /\ voltage_trace' = Append(voltage_trace, custom_voltage(total_flux, prev_flux))
           /\ prev_flux' = <<total_flux>>
    /\ step' = step + 1
    /\ UNCHANGED <<ctlVars, magnetVars, phaseVars, flux_data, rotorVars, simVars, callVars>>
    /\ UNCHANGED <<streamVars, linearVars, time_tracker>>

\* return voltage_trace
CustomReturn ==
    /\ prog = "voltage_trace_custom"
    /\ pc = "sweep"
    /\ step = PHYSICS_STEPS(prog)
    /\ pc' = "done"
    /\ UNCHANGED <<prog, magnetVars, phaseVars, sweepVars, rotorVars, simVars, callVars>>
    /\ UNCHANGED <<streamVars, linearVars, time_tracker>>

\* The magnet setup loop of calculate_voltage_trace_custom keeps theta as
\* it is (no normalization).
InitCustom ==
    /\ prog = "voltage_trace_custom"
    /\ pc = "sweep"
    /\ args \in CustomConfigs
    /\ magnet_angles_start = MagnetAnglesStart(args[1])
    /\ magnet_polarities = args[2]
    /\ result = 0
    /\ prev_args = <<>>
    /\ prev_result = 0
    /\ NoPhase
    /\ NoSweep
    /\ NoRotor
    /\ NoSim
    /\ NoStream
    /\ NoLinear
    /\ NoPlayback

----------------------------------------------------------------------------
(* generator.py: calculate_physics_data                                    *)

\* theta = (pi/2 - i * (2 pi / num_magnets)) % (2 pi)
NormalizedMagnetAngles(n) == [k \in 1..n |-> MagnetAnglesStart(n)[k] % TWO_PI]

\* total_flux_this_step of the simulation loop at time t.
total_flux_this_step(t, coil_theta, magnet_path_radius, magnet_radius) ==
    LET angle_delta == -ROTATION_SPEED * t
        contribution(k) ==
            LET current_mag_angle == (magnet_angles_start[k] + angle_delta) % TWO_PI
                theta_dist == get_theta_distance(coil_theta, current_mag_angle)
                area == get_area_between_circle(theta_dist, magnet_path_radius, magnet_radius)
            IN  signed_area(magnet_polarities[k], area)
    IN  sum_or_raise([k \in 1..Len(magnet_angles_start) |-> contribution(k)])

\* Variant of physics_voltage whose first sample is the difference to a
\* previous flux of 0 instead of 0.
physics_voltage_first_nonzero(flux_values, s) ==
    IF s > 0
    THEN (flux_values[s + 1] - flux_values[s]) * StepsPerSecond("physics_data")
    ELSE flux_values[1] * StepsPerSecond("physics_data")

\* voltage of step `s` from the smoothed flux values (0-based step).
physics_voltage(flux_values, s) ==
    IF s > 0
    THEN (flux_values[s + 1] - flux_values[s]) * StepsPerSecond("physics_data")
    ELSE 0

\* <<num_magnets, magnet_path_radius, magnet_radius, coil_theta>>: the
\* defaults of calculate_physics_data (4 magnets) and the call of
\* SinglePhaseScene (2 magnets).
PhysicsConfigs ==
    {<<4, 25000, 5000, DEGREES90>>,
     <<2, 20000, 8000, DEGREES90>>}

\* The runs that call calculate_physics_data: with its defaults or the
\* arguments of SinglePhaseScene ("physics_data"), and from
\* SpinningGenerator.construct after check_valid_constants
\* ("spinning_generator").
PhysicsProgs == {"physics_data", "spinning_generator"}

\* One iteration of the simulation loop.
PhysicsFluxStep ==
    /\ prog \in PhysicsProgs
    /\ pc = "flux"
    /\ step < PHYSICS_STEPS(prog)
    /\ flux_data' = Append(flux_data,
                           total_flux_this_step(step * dt(prog), args[4], args[2], args[3]))
    /\ step' = step + 1
    /\ UNCHANGED <<ctlVars, magnetVars, phaseVars, voltage_trace, prev_flux, rotorVars,
                   simVars, callVars>>
    /\ UNCHANGED <<streamVars, linearVars, time_tracker>>

\* flux_values_smoothed = gaussian_filter1d(flux_values, sigma=50), rebuilt
\* into flux_data.
PhysicsSmooth ==
    /\ prog \in PhysicsProgs
    /\ pc = "flux"
    /\ step = PHYSICS_STEPS(prog)
    /\ flux_data' = gaussian_filter1d(flux_data, "reflect")
    /\ step' = 0
    /\ pc' = "voltage"
    /\ UNCHANGED <<prog, magnetVars, phaseVars, voltage_trace, prev_flux, rotorVars,
                   simVars, callVars>>
    /\ UNCHANGED <<streamVars, linearVars, time_tracker>>

\* One iteration of the voltage loop.
PhysicsVoltageStep ==
    /\ prog \in PhysicsProgs
    /\ pc = "voltage"
    /\ step < PHYSICS_STEPS(prog)
    /\ voltage_trace' = Append(voltage_trace, physics_voltage(flux_data, step))
    /\ step' = step + 1
    /\ UNCHANGED <<ctlVars, magnetVars, phaseVars, flux_data, prev_flux, rotorVars,
                   simVars, callVars>>
    /\ UNCHANGED <<streamVars, linearVars, time_tracker>>

\* return flux_data, voltage_data
PhysicsReturn ==
    /\ prog \in PhysicsProgs
    /\ pc = "voltage"
    /\ step = PHYSICS_STEPS(prog)
    /\ pc' = "done"
    /\ UNCHANGED <<prog, magnetVars, phaseVars, sweepVars, rotorVars, simVars, callVars>>
    /\ UNCHANGED <<streamVars, linearVars, time_tracker>>

InitPhysics ==
    /\ prog = "physics_data"
    /\ pc = "flux"
    /\ args \in PhysicsConfigs
    /\ magnet_angles_start = NormalizedMagnetAngles(args[1])
    /\ magnet_polarities = MagnetPolarities(args[1])
    /\ result = 0
    /\ prev_args = <<>>
    /\ prev_result = 0
    /\ NoPhase
    /\ NoSweep
    /\ NoRotor
    /\ NoSim
    /\ NoStream
    /\ NoLinear
    /\ NoPlayback

----------------------------------------------------------------------------
(* spinning_circle_simulation.py                                           *)

SC_DISK_RADIUS == FP
MAGNET_DIAMETER == 3000
SC_MAGNET_RADIUS == MAGNET_DIAMETER \div 2
SC_OFFSET_FROM_EDGE == 500
SC_MAGNET_PATH_RADIUS == SC_DISK_RADIUS - SC_OFFSET_FROM_EDGE - SC_MAGNET_RADIUS
NUM_OF_MAGNET == 4
NUM_COILS == 3
MAGNET_ANGLE == TWO_PI \div NUM_OF_MAGNET
COIL_ANGLE == TWO_PI \div NUM_COILS

\* One step of the rotor is one angle tick.
STEPS_PER_ROTATION == TicksPerRev
time_per_rotation == 5

\* math.asin
Asin(x) == Quot(PI_FP, 2) - Acos(x)

\* THETA_PER_MAGNET = 2 * math.asin(MAGNET_DIAMETER / (2 * MAGNET_PATH_RADIUS)), in FP radians
THETA_PER_MAGNET == 2 * Asin(Quot(MAGNET_DIAMETER * FP, 2 * SC_MAGNET_PATH_RADIUS))

\* Variant of Magnet.rotate without the wrap at 0.
rotate_no_wrap(magnet) ==
    [magnet EXCEPT !.theta = @ - TWO_PI \div STEPS_PER_ROTATION]

\* Magnet.rotate
rotate(magnet) ==
    LET theta == magnet.theta - TWO_PI \div STEPS_PER_ROTATION
    IN  [magnet EXCEPT !.theta = IF theta < 0 THEN theta + TWO_PI ELSE theta]

\* theta = pi/2 - i * angle; if theta < 0: theta += 2 pi
StartTheta(i, angle) ==
    LET theta == DEGREES90 - i * angle
    IN  IF theta < 0 THEN theta + TWO_PI ELSE theta

\* total_flux_this_step for one coil: the magnets closer than
\* THETA_PER_MAGNET add or subtract their overlap area.
coil_total_flux(coil_theta, collection) ==
    LET contribution(k) ==
            LET theta_dist == get_theta_distance(coil_theta, collection[k].theta)
                overlap_area == get_area_between_circle(theta_dist, SC_MAGNET_PATH_RADIUS,
                                                        SC_MAGNET_RADIUS)
            IN  IF Radians(theta_dist) < THETA_PER_MAGNET
                THEN signed_area(collection[k].north_pole, overlap_area)
                ELSE 0
    IN  SumSeq([k \in 1..Len(collection) |-> contribution(k)])

\* Variant of record_flux that derives a voltage at the first step too,
\* against a flux of 0.
record_flux_every_step(coil, total, j) ==
    LET last == IF Len(coil.fluxes) = 0 THEN 0 ELSE coil.fluxes[Len(coil.fluxes)]
        voltage == Quot((total - last) * STEPS_PER_ROTATION, time_per_rotation)
    IN  [coil EXCEPT !.voltages = Append(@, voltage),
                     !.fluxes = Append(@, total)]

\* if j > 0: coil.voltages.append((total - coil.fluxes[-1]) / dt);
\* coil.fluxes.append(total)
record_flux(coil, total, j) ==
    LET voltage == Quot((total - coil.fluxes[Len(coil.fluxes)]) * STEPS_PER_ROTATION,
                        time_per_rotation)
    IN  [coil EXCEPT !.voltages = IF j > 0 THEN Append(@, voltage) ELSE @,
                     !.fluxes = Append(@, total)]

\* Variant of CoilStep that rotates the magnets after each coil.
CoilStep_rotating ==
    /\ prog = "spinning_circle"
    /\ pc = "coils"
    /\ coil_i <= NUM_COILS
    /\ coil_collection' =
           [coil_collection EXCEPT ![coil_i] =
               record_flux(@, coil_total_flux(@.theta, magnet_collection), step)]
    /\ coil_i' = coil_i + 1
    /\ magnet_collection' = [k \in 1..Len(magnet_collection) |-> rotate(magnet_collection[k])]
    /\ UNCHANGED <<ctlVars, magnetVars, flux_lookup, flux_lookup_smoothed, flux_now, flux_prev,
                   coil_data, sweepVars, simVars, callVars>>
    /\ UNCHANGED <<streamVars, linearVars, time_tracker>>

\* The body of `for coil in coil_collection` for coil number coil_i at step j.
CoilStep ==
    /\ prog = "spinning_circle"
    /\ pc = "coils"
    /\ coil_i <= NUM_COILS
    /\ coil_collection' =
           [coil_collection EXCEPT ![coil_i] =
               record_flux(@, coil_total_flux(@.theta, magnet_collection), step)]
    /\ coil_i' = coil_i + 1
    /\ UNCHANGED <<ctlVars, magnetVars, flux_lookup, flux_lookup_smoothed, flux_now, flux_prev,
                   coil_data, sweepVars, magnet_collection, simVars, callVars>>
    /\ UNCHANGED <<streamVars, linearVars, time_tracker>>

\* for magnet in magnet_collection: magnet.rotate(), then the next j.
RotateMagnets ==
    /\ prog = "spinning_circle"
    /\ pc = "coils"
    /\ coil_i = NUM_COILS + 1
    /\ magnet_collection' = [k \in 1..Len(magnet_collection) |-> rotate(magnet_collection[k])]
    /\ step' = step + 1
    /\ IF step + 1 < STEPS_PER_ROTATION
       THEN coil_i' = 1 /\ pc' = pc
       ELSE coil_i' = coil_i /\ pc' = "done"
    /\ UNCHANGED <<prog, magnetVars, flux_lookup, flux_lookup_smoothed, flux_now, flux_prev,
                   coil_data, voltage_trace, flux_data, prev_flux, coil_collection, simVars,
                   callVars>>
    /\ UNCHANGED <<streamVars, linearVars, time_tracker>>

InitSpinning ==
    /\ prog = "spinning_circle"
    /\ pc = "coils"
    /\ magnet_collection =
           [k \in 1..NUM_OF_MAGNET |->
               [theta |-> StartTheta(k - 1, MAGNET_ANGLE), north_pole |-> (k - 1) % 2 = 0]]
    /\ coil_collection =
           [k \in 1..NUM_COILS |->
               [theta |-> StartTheta(k - 1, COIL_ANGLE), voltages |-> <<>>, fluxes |-> <<>>]]
    /\ coil_i = 1
    /\ flux_lookup = <<>>
    /\ flux_lookup_smoothed = <<>>
    /\ flux_now = 0
    /\ flux_prev = 0
    /\ coil_data = <<>>
    /\ NoMagnets
    /\ NoSweep
    /\ NoSim
    /\ NoCalls
    /\ NoStream
    /\ NoLinear
    /\ NoPlayback

\* Two-magnet collections near the coil at 12 o'clock: any two angles within
\* PairSpread ticks of it, any two poles.
PairSpread == 4
PairThetas == {DEGREES90 + k : k \in (-PairSpread)..PairSpread}
PairInputs ==
    {<<[theta |-> t1, north_pole |-> n1], [theta |-> t2, north_pole |-> n2]>> :
        t1 \in PairThetas, t2 \in PairThetas, n1 \in BOOLEAN, n2 \in BOOLEAN}

\* result = total_flux_this_step of the coil args[1] for the collection args[2].
CallCoilFlux ==
    /\ prog = "coil_flux"
    /\ pc = "call"
    /\ result' = coil_total_flux(args[1], args[2])
    /\ pc' = "returned"
    /\ UNCHANGED <<prog, magnetVars, phaseVars, sweepVars, rotorVars, simVars,
                   args, prev_args, prev_result>>
    /\ UNCHANGED <<streamVars, linearVars, time_tracker>>

InitCoilFlux ==
    /\ prog = "coil_flux"
    /\ pc = "call"
    /\ args \in {DEGREES90} \X PairInputs
    /\ result = 0
    /\ prev_args = <<>>
    /\ prev_result = 0
    /\ NoMagnets
    /\ NoPhase
    /\ NoSweep
    /\ NoRotor
    /\ NoSim
    /\ NoStream
    /\ NoLinear
    /\ NoPlayback

----------------------------------------------------------------------------
(* simulation.py: the sampled-point magnets on the linear track            *)

\* Sample points per magnet (50000 in the script).
POINTS == 2
RADIUS == 5000
MAGNET_DECAY_RADIUS_ON == FALSE
COIL_X_1 == 5000
COIL_X_2 == 25000
FINISH_LINE_X == 100000
time_delta == 1500
\* math.ceil(FINISH_LINE_X / time_delta)
STEPS == (FINISH_LINE_X + time_delta - 1) \div time_delta

\* What get_random_valid_points may return: here the two ends of the
\* horizontal diameter (both pass the test sqrt(x*x + y*y) <= radius).
ValidPoints == {<<-RADIUS, 0>>, <<RADIUS, 0>>}
PointLists == [1..POINTS -> ValidPoints]

\* Magnet.__init__
Magnet(inital_x, inital_y, polarity, velocity, points) ==
    [_inital_x |-> inital_x, _initial_y |-> inital_y, polarity |-> polarity,
     velocity |-> velocity,
     positions |-> [i \in 1..POINTS |-> <<inital_x + points[i][1], inital_y + points[i][2]>>]]

\* Magnet.field_emitted: polarity times the fraction of the sample points
\* inside the window (the decay branch is switched off).
field_emitted(self, x_1, x_2, y_1, y_2, t) ==
    LET inside(i) ==
            LET current_x == self.positions[i][1] + MulFP(self.velocity, t)
                current_y == self.positions[i][2]
            IN  x_1 <= current_x /\ current_x <= x_2 /\ y_1 <= current_y /\ current_y <= y_2
        flux == SumSeq([i \in 1..POINTS |-> IF inside(i) THEN self.polarity ELSE 0])
    IN  Quot(flux * FP, POINTS)

\* One iteration of `for i in range(STEPS)`; result keeps what field_emitted
\* returned for each magnet.
SimStep ==
    /\ prog = "simulation"
    /\ pc = "loop"
    /\ step < STEPS
    /\ LET emitted == [k \in 1..Len(magnets) |->
                          field_emitted(magnets[k], COIL_X_1, COIL_X_2, -100 * FP, 100 * FP,
                                        current_t)]
           current_flux == SumSeq(emitted)
           last == IF first THEN current_flux ELSE last_flux
           current_voltage == Quot((current_flux - last) * FP, time_delta)
       IN  /\ result' = emitted
           /\ args' = <<COIL_X_1, COIL_X_2, -100 * FP, 100 * FP, current_t>>
           /\ flux_data' = Append(flux_data, current_flux)
           /\ voltage_trace' = Append(voltage_trace, current_voltage)
           /\ last_flux' = current_flux
    /\ first' = FALSE
    /\ current_t' = current_t + time_delta
    /\ step' = step + 1
    /\ UNCHANGED <<ctlVars, magnetVars, phaseVars, prev_flux, rotorVars, magnets,
                   prev_args, prev_result>>
    /\ UNCHANGED <<streamVars, linearVars, time_tracker>>

\* The loop is over: rms is computed and printed.
SimFinish ==
    /\ prog = "simulation"
    /\ pc = "loop"
    /\ step = STEPS
    /\ pc' = "done"
    /\ UNCHANGED <<prog, magnetVars, phaseVars, sweepVars, rotorVars, simVars, callVars>>
    /\ UNCHANGED <<streamVars, linearVars, time_tracker>>

\* myMag = Magnet(), secondaryMag = Magnet(-1, 0, -1, 1), thirdMag = Magnet(-2, 0, 1, 1)
InitSimulation ==
    /\ prog = "simulation"
    /\ pc = "loop"
    /\ \E p1 \in PointLists, p2 \in PointLists, p3 \in PointLists :
          magnets = <<Magnet(0, 0, 1, FP, p1), Magnet(-FP, 0, -1, FP, p2),
                      Magnet(-2 * FP, 0, 1, FP, p3)>>
    /\ current_t = 0
    /\ last_flux = 0
    /\ first = TRUE
    /\ NoMagnets
    /\ NoPhase
    /\ NoSweep
    /\ NoRotor
    /\ NoCalls
    /\ NoStream
    /\ NoLinear
    /\ NoPlayback


----------------------------------------------------------------------------
(* linear_simulation.py: a row of sampled-point magnets passing one coil   *)

COIL_WIDTH == FP
LS_COIL_X_2 == COIL_X_1 + COIL_WIDTH
VELOCITY == FP
LS_MAGNET_RADIUS == 5000
LS_NUM_MAGNETS == 7
MAGNET_SPACING_GAP == 0
ALTERNATE_POLARITY == TRUE
LS_FINISH_LINE_X == 80000
\* math.ceil(FINISH_LINE_X / time_delta)
LS_STEPS == (LS_FINISH_LINE_X + time_delta - 1) \div time_delta

\* magnet_factory: magnet i (from 0) at x = -i * (2 * MAGNET_RADIUS + gap)
\* with polarity (i % 2) * 2 - 1; points[k] are the samples drawn for it.
magnet_factory(points) ==
    [k \in 1..LS_NUM_MAGNETS |->
        LET i == k - 1
            polarity == IF ALTERNATE_POLARITY THEN (i % 2) * 2 - 1 ELSE 1
            x_displacement == i * (LS_MAGNET_RADIUS * 2 + MAGNET_SPACING_GAP)
        IN  Magnet(0 - x_displacement, 0, polarity, VELOCITY, points[k])]

\* [[0 for _ in range(STEPS)] for _ in range(NUM_MAGNETS)]
ZeroTable == [k \in 1..LS_NUM_MAGNETS |-> [i \in 1..LS_STEPS |-> 0]]

\* Variant of LinearMagnetStep that records the flux of magnet k_prime alone.
LinearMagnetStep_single ==
    /\ prog = "linear_simulation"
    /\ pc = "loop"
    /\ coil_i <= LS_NUM_MAGNETS
    /\ LET current_flux == field_emitted(magnets[coil_i], COIL_X_1, LS_COIL_X_2,
                                         -100 * FP, 100 * FP, current_t)
           current_voltage ==
               IF step > 0
               THEN Quot((current_flux - fluxes[coil_i][step]) * FP, time_delta)
               ELSE 0
       IN  /\ flux_now' = current_flux
           /\ fluxes' = [fluxes EXCEPT ![coil_i][step + 1] = current_flux]
           /\ voltages' = [voltages EXCEPT ![coil_i][step + 1] = current_voltage]
    /\ coil_i' = coil_i + 1
    /\ UNCHANGED <<ctlVars, magnetVars, flux_lookup, flux_lookup_smoothed, flux_prev, coil_data,
                   sweepVars, rotorVars, simVars, callVars, streamVars, times, time_tracker>>

\* The body of `for k_prime in range(NUM_MAGNETS)` at step i: coil_i is
\* k_prime + 1, flux_now is current_flux, step is i.
LinearMagnetStep ==
    /\ prog = "linear_simulation"
    /\ pc = "loop"
    /\ coil_i <= LS_NUM_MAGNETS
    /\ LET current_flux == flux_now + field_emitted(magnets[coil_i], COIL_X_1, LS_COIL_X_2,
                                                    -100 * FP, 100 * FP, current_t)
           current_voltage ==
               IF step > 0
               THEN Quot((current_flux - fluxes[coil_i][step]) * FP, time_delta)
               ELSE 0
       IN  /\ flux_now' = current_flux
           /\ fluxes' = [fluxes EXCEPT ![coil_i][step + 1] = current_flux]
           /\ voltages' = [voltages EXCEPT ![coil_i][step + 1] = current_voltage]
    /\ coil_i' = coil_i + 1
    /\ UNCHANGED <<ctlVars, magnetVars, flux_lookup, flux_lookup_smoothed, flux_prev, coil_data,
                   sweepVars, rotorVars, simVars, callVars, streamVars, times, time_tracker>>

\* times.append(current_t); current_t += time_delta; then the next i with
\* current_flux = 0.
LinearNextStep ==
    /\ prog = "linear_simulation"
    /\ pc = "loop"
    /\ coil_i = LS_NUM_MAGNETS + 1
    /\ times' = Append(times, current_t)
    /\ current_t' = current_t + time_delta
    /\ step' = step + 1
    /\ flux_now' = 0
    /\ IF step + 1 < LS_STEPS
       THEN coil_i' = 1 /\ pc' = pc
       ELSE coil_i' = coil_i /\ pc' = "done"
    /\ UNCHANGED <<prog, magnetVars, flux_lookup, flux_lookup_smoothed, flux_prev, coil_data,
                   voltage_trace, flux_data, prev_flux, rotorVars, magnets, last_flux, first,
                   callVars, streamVars, fluxes, voltages, time_tracker>>

\* The script up to its main loop; the magnets of even and of odd index
\* share their drawn samples.
InitLinearSimulation ==
    /\ prog = "linear_simulation"
    /\ pc = "loop"
    /\ \E p \in PointLists, q \in PointLists :
          magnets = magnet_factory([k \in 1..LS_NUM_MAGNETS |-> IF k % 2 = 1 THEN p ELSE q])
    /\ current_t = 0
    /\ last_flux = 0
    /\ first = TRUE
    /\ times = <<>>
    /\ fluxes = ZeroTable
    /\ voltages = ZeroTable
    /\ flux_lookup = <<>>
    /\ flux_lookup_smoothed = <<>>
    /\ coil_i = 1
    /\ flux_now = 0
    /\ flux_prev = 0
    /\ coil_data = <<>>
    /\ NoMagnets
    /\ NoSweep
    /\ NoRotor
    /\ NoCalls
    /\ NoStream
    /\ NoPlayback
----------------------------------------------------------------------------
(* scene_zero_sum.py: ZeroSumStackScene                                    *)

AMPLITUDE == 2 * FP
\* OMEGA = 2 * PI with SIMULATION_TIME = 1: one cycle over the sweep, so the
\* time tracker at frame k of TicksPerRev stands at the angle of k ticks.
OmegaT(k) == Radians(k)
PHASE_A == 0
PHASE_B == Quot(2 * PI_FP, 3)
PHASE_C == Quot(4 * PI_FP, 3)

\* Variant of wave_b a quarter cycle ahead instead of a third.
wave_b_quarter(k) == MulFP(AMPLITUDE, Sin(OmegaT(k) + Quot(PI_FP, 2)))

wave_a(k) == MulFP(AMPLITUDE, Sin(OmegaT(k) + PHASE_A))
wave_b(k) == MulFP(AMPLITUDE, Sin(OmegaT(k) + PHASE_B))
wave_c(k) == MulFP(AMPLITUDE, Sin(OmegaT(k) + PHASE_C))

\* One redraw of create_sum_indicator as the time tracker advances:
\* total = wave_a(t) + wave_b(t) + wave_c(t).
SumIndicatorFrame ==
    /\ prog = "zero_sum"
    /\ pc = "sweep"
    /\ step <= TicksPerRev
    /\ args' = <<wave_a(step), wave_b(step), wave_c(step)>>
    /\ result' = wave_a(step) + wave_b(step) + wave_c(step)
    /\ step' = step + 1
    /\ UNCHANGED <<ctlVars, magnetVars, phaseVars, voltage_trace, flux_data, prev_flux,
                   rotorVars, simVars, prev_args, prev_result>>
    /\ UNCHANGED <<streamVars, linearVars, time_tracker>>

InitZeroSum ==
    /\ prog = "zero_sum"
    /\ pc = "sweep"
    /\ NoMagnets
    /\ NoPhase
    /\ NoSweep
    /\ NoRotor
    /\ NoSim
    /\ NoCalls
    /\ NoStream
    /\ NoLinear
    /\ NoPlayback

----------------------------------------------------------------------------
(* verify_flux_values.py: analyze_scenario                                 *)
(* Times of this script are in milliseconds.                               *)

VF_magnet_radius == FP \div 2
VF_magnet_diameter == 2 * VF_magnet_radius
VF_coil_width == VF_magnet_diameter
b_strength == 9 * FP
\* speed = 1.5 per second: FP units per millisecond
speed == 15
\* duration = 10.0 s and the 5.0 of the magnet count, as lengths at `speed`
duration == 10000
MillisPerSecond == 1000
\* t_values = np.linspace(0, duration, 1000): samples 10 ms apart
SampleSpacing == 10
\* the samples of t_values the sweep goes through
ScenarioSamples == 120
\* dt = 0.001 of get_voltage
VF_dt == 1
\* if t < 0.05: v = 0
GlitchTime == 50

\* Variant of calculate_total_flux_centers whose cutoff is the half width
\* of the window alone.
calculate_total_flux_centers_tight(magnet_centers, coil_width, magnet_radius, b_field_strength) ==
    LET cutoff == Quot(coil_width, 2)
        flux(k) ==
            IF Abs(magnet_centers[k]) < cutoff
            THEN calculate_single_magnet_flux(magnet_centers[k], coil_width,
                                              magnet_radius, b_field_strength)
            ELSE 0
    IN  SumSeq([k \in 1..Len(magnet_centers) |-> flux(k)])

\* verify_flux_values.calculate_total_flux: one b_field_strength for all.
calculate_total_flux_centers(magnet_centers, coil_width, magnet_radius, b_field_strength) ==
    LET cutoff == Quot(coil_width, 2) + magnet_radius + FP \div 10
        flux(k) ==
            IF Abs(magnet_centers[k]) < cutoff
            THEN calculate_single_magnet_flux(magnet_centers[k], coil_width,
                                              magnet_radius, b_field_strength)
            ELSE 0
    IN  SumSeq([k \in 1..Len(magnet_centers) |-> flux(k)])

\* gap_ratio in tenths: analyze_scenario("Gap 1.0x", 1.0), ("Gap 0.5x", 0.5),
\* ("Gap 0.0x", 0.0)
GapRatios == {10, 5, 0}
stride(gap_ratio) == VF_magnet_diameter + Quot(gap_ratio * VF_magnet_diameter, 10)
\* start_x_leader_world - phy_center_x
math_start_x == -Quot(VF_coil_width, 2) - VF_magnet_radius
\* int((speed * duration + 5.0) / stride) + 2
num_magnets(gap_ratio) == Quot(speed * duration + 5 * FP, stride(gap_ratio)) + 2
magnet_offsets(gap_ratio) == [k \in 1..num_magnets(gap_ratio) |-> -(k - 1) * stride(gap_ratio)]

\* time_flux(tm) of the scenario with this gap ratio
time_flux(gap_ratio, tm) ==
    LET leader_x == math_start_x + speed * tm
        cc == [k \in 1..num_magnets(gap_ratio) |-> leader_x + magnet_offsets(gap_ratio)[k]]
    IN  calculate_total_flux_centers(cc, VF_coil_width, VF_magnet_radius, b_strength)

\* Variant of get_voltage with the forward difference over one dt.
get_voltage_forward(gap_ratio, t, delta) ==
    Quot(-(time_flux(gap_ratio, t + delta) - time_flux(gap_ratio, t)) * MillisPerSecond, delta)

\* get_voltage(flux_func, t, dt) for flux_func = time_flux of the scenario
\* (delta is its dt)
get_voltage(gap_ratio, t, delta) ==
    Quot(-(time_flux(gap_ratio, t + delta) - time_flux(gap_ratio, t - delta))
             * MillisPerSecond, 2 * delta)

\* One iteration of `for t in t_values`; flux_now and flux_prev keep what
\* time_flux returned to get_voltage for t + dt and t - dt.
ScenarioStep ==
    /\ prog = "analyze_scenario"
    /\ pc = "sweep"
    /\ step < ScenarioSamples
    /\ LET t == step * SampleSpacing
           v == get_voltage(args[1], t, VF_dt)
       IN  /\ voltage_trace' = Append(voltage_trace, IF t < GlitchTime THEN 0 ELSE v)
           /\ flux_now' = time_flux(args[1], t + VF_dt)
           /\ flux_prev' = time_flux(args[1], t - VF_dt)
    /\ step' = step + 1
    /\ UNCHANGED <<ctlVars, magnetVars, flux_lookup, flux_lookup_smoothed, coil_i, coil_data,
                   flux_data, prev_flux, rotorVars, simVars, callVars>>
    /\ UNCHANGED <<streamVars, linearVars, time_tracker>>

\* The end of the loop (rms_v is printed only).
ScenarioReturn ==
    /\ prog = "analyze_scenario"
    /\ pc = "sweep"
    /\ step = ScenarioSamples
    /\ pc' = "done"
    /\ UNCHANGED <<prog, magnetVars, phaseVars, sweepVars, rotorVars, simVars, callVars>>
    /\ UNCHANGED <<streamVars, linearVars, time_tracker>>

InitScenario ==
    /\ prog = "analyze_scenario"
    /\ pc = "sweep"
    /\ args \in {<<g>> : g \in GapRatios}
    /\ result = 0
    /\ prev_args = <<>>
    /\ prev_result = 0
    /\ NoMagnets
    /\ NoPhase
    /\ NoSweep
    /\ NoRotor
    /\ NoSim
    /\ NoStream
    /\ NoLinear
    /\ NoPlayback

----------------------------------------------------------------------------
(* video_1/manim_utils.py: flux_function, voltage_function                 *)

\* np.exp(-f) for 0 <= f < 1 (FP units), its series in Horner form.
ExpSeries(f) ==
    LET h6 == FP - Quot(f, 6)
        h5 == FP - MulFP(Quot(f, 5), h6)
        h4 == FP - MulFP(Quot(f, 4), h5)
        h3 == FP - MulFP(Quot(f, 3), h4)
        h2 == FP - MulFP(Quot(f, 2), h3)
    IN  FP - MulFP(f, h2)

\* exp(-1)
INV_E == 3679

\* np.exp(-u) for u >= 0
RECURSIVE ExpNeg(_)
ExpNeg(u) == IF u >= FP THEN MulFP(INV_E, ExpNeg(u - FP)) ELSE ExpSeries(u)

\* the defaults peak_position = 0, width = 2.0, velocity = 1.0
DefaultPeak == 0
DefaultWidth == 2 * FP
DefaultVelocity == FP

\* np.exp(-((position - peak_position) ** 2) / (2 * width ** 2))
flux_function(position, peak_position, width) ==
    ExpNeg(Quot(MulFP(position - peak_position, position - peak_position) * FP,
                2 * MulFP(width, width)))

\* flux_derivative = -((x - x0) / sigma_sq) * np.exp(-((x - x0) ** 2) / (2 * sigma_sq));
\* return -flux_derivative * velocity
voltage_function(position, peak_position, width, velocity) ==
    LET x == position
        x0 == peak_position
        sigma_sq == MulFP(width, width)
        flux_derivative ==
            MulFP(-Quot((x - x0) * FP, sigma_sq),
                  ExpNeg(Quot(MulFP(x - x0, x - x0) * FP, 2 * sigma_sq)))
    IN  MulFP(-flux_derivative, velocity)

\* Positions the function is called at: steps of 0.5 around the peak.
MaxPosition == 8
PositionInputs == {k * (FP \div 2) : k \in (-MaxPosition)..MaxPosition}

\* result = voltage_function(position) with the default peak, width and velocity
CallVoltageFunction ==
    /\ prog = "voltage_function"
    /\ pc = "call"
    /\ result' = voltage_function(args[1], DefaultPeak, DefaultWidth, DefaultVelocity)
    /\ pc' = "returned"
    /\ UNCHANGED <<prog, magnetVars, phaseVars, sweepVars, rotorVars, simVars,
                   args, prev_args, prev_result>>
    /\ UNCHANGED <<streamVars, linearVars, time_tracker>>

InitVoltageFunction ==
    /\ prog = "voltage_function"
    /\ pc = "call"
    /\ args \in {<<x>> : x \in PositionInputs}
    /\ result = 0
    /\ prev_args = <<>>
    /\ prev_result = 0
    /\ NoMagnets
    /\ NoPhase
    /\ NoSweep
    /\ NoRotor
    /\ NoSim
    /\ NoStream
    /\ NoLinear
    /\ NoPlayback

----------------------------------------------------------------------------
(* layout.py: Layout (lengths in FP units; a mobject is its centre, width  *)
(* and height)                                                              *)

\* FRAME_WIDTH = 14.2, FRAME_HEIGHT = 8.0, MARGIN = 0.5
FRAME_WIDTH == 142000
FRAME_HEIGHT == 80000
MARGIN == 5000
SCREEN_LEFT == -(FRAME_WIDTH \div 2)
SCREEN_RIGHT == FRAME_WIDTH \div 2
SCREEN_TOP == FRAME_HEIGHT \div 2
SCREEN_BOTTOM == -(FRAME_HEIGHT \div 2)

\* Layout.clamp
clamp(value, min_val, max_val) == Max(min_val, Min(max_val, value))

\* Variant of clamp_position that keeps the centre, not the whole object,
\* inside the margin.
clamp_position_centre_only(pos, obj_width, obj_height) ==
    <<clamp(pos[1], SCREEN_LEFT + MARGIN, SCREEN_RIGHT - MARGIN),
      clamp(pos[2], SCREEN_BOTTOM + MARGIN, SCREEN_TOP - MARGIN)>>

\* Layout.clamp_position (x and y; z is passed through)
clamp_position(pos, obj_width, obj_height) ==
    LET half_w == Quot(obj_width, 2)
        half_h == Quot(obj_height, 2)
    IN  <<clamp(pos[1], SCREEN_LEFT + MARGIN + half_w, SCREEN_RIGHT - MARGIN - half_w),
          clamp(pos[2], SCREEN_BOTTOM + MARGIN + half_h, SCREEN_TOP - MARGIN - half_h)>>

\* Layout.safe_move_to: the mobject after mobject.move_to(safe_pos).
safe_move_to(mobject, target) ==
    [mobject EXCEPT !.center = clamp_position(target, mobject.width, mobject.height)]

\* Layout.safe_shift
safe_shift(mobject, direction) ==
    safe_move_to(mobject, <<mobject.center[1] + direction[1],
                            mobject.center[2] + direction[2]>>)

\* Layout.is_on_screen
is_on_screen(mobject) ==
    LET left == mobject.center[1] - Quot(mobject.width, 2)
        right == mobject.center[1] + Quot(mobject.width, 2)
        top == mobject.center[2] + Quot(mobject.height, 2)
        bottom == mobject.center[2] - Quot(mobject.height, 2)
    IN  left >= SCREEN_LEFT /\ right <= SCREEN_RIGHT
            /\ bottom >= SCREEN_BOTTOM /\ top <= SCREEN_TOP

\* Layout.validate: how the call ends.
validate(mobject) == IF ~is_on_screen(mobject) THEN "ValueError" ELSE "return"

\* Widths and heights of the objects: a point, a small object, one that just
\* fits between the margins, one that fits the frame only, one too large.
WidthValues == {0, 2 * FP, FRAME_WIDTH - 2 * MARGIN, FRAME_WIDTH, 16 * FP}
HeightValues == {0, 2 * FP, FRAME_HEIGHT - 2 * MARGIN, FRAME_HEIGHT, 9 * FP}
\* Targets on and off the screen, and the shifts 2 * LEFT, RIGHT, UP, DOWN.
TargetInputs == {<<x * FP, y * FP>> : x \in {-10, -4, 0, 7, 10}, y \in {-5, 0, 4, 6}}
DirectionInputs == {<<-2 * FP, 0>>, <<2 * FP, 0>>, <<0, 2 * FP>>, <<0, -2 * FP>>}

\* Layout.safe_move_to(mobject, target) on the mobject held in result.
CallSafeMoveTo ==
    /\ prog = "layout"
    /\ \E target \in TargetInputs :
          /\ args' = <<"safe_move_to", target>>
          /\ result' = safe_move_to(result, target)
    /\ pc' = "moved"
    /\ UNCHANGED <<prog, magnetVars, phaseVars, sweepVars, rotorVars, simVars,
                   prev_args, prev_result, streamVars, linearVars, time_tracker>>

\* Layout.safe_shift(mobject, direction) on the mobject held in result.
CallSafeShift ==
    /\ prog = "layout"
    /\ \E direction \in DirectionInputs :
          /\ args' = <<"safe_shift", direction>>
          /\ result' = safe_shift(result, direction)
    /\ pc' = "moved"
    /\ UNCHANGED <<prog, magnetVars, phaseVars, sweepVars, rotorVars, simVars,
                   prev_args, prev_result, streamVars, linearVars, time_tracker>>

\* A mobject of some size, created at the origin.
InitLayout ==
    /\ prog = "layout"
    /\ pc = "created"
    /\ \E w \in WidthValues, h \in HeightValues :
          result = [center |-> <<0, 0>>, width |-> w, height |-> h]
    /\ args = <<>>
    /\ prev_args = <<>>
    /\ prev_result = 0
    /\ NoMagnets
    /\ NoPhase
    /\ NoSweep
    /\ NoRotor
    /\ NoSim
    /\ NoStream
    /\ NoLinear
    /\ NoPlayback

----------------------------------------------------------------------------
(* generator.py: check_valid_constants and SpinningGenerator.construct     *)

\* int((2 * math.pi) / theta_per_magnet)
max_possible_magnet(magnet_diameter, magnet_path_radius) ==
    Quot(2 * PI_FP, 2 * Asin(Quot(magnet_diameter * FP, 2 * magnet_path_radius)))

\* Variant of check_valid_constants that also refuses a magnet count equal
\* to the maximum.
check_valid_constants_strict(disk_radius, magnet_radius, offset_from_edge, magnet_path_radius, n) ==
    IF 2 * magnet_radius > disk_radius THEN "exit(1)"
    ELSE IF 2 * magnet_radius + offset_from_edge > disk_radius THEN "exit(1)"
    ELSE IF n >= max_possible_magnet(2 * magnet_radius, magnet_path_radius) THEN "exit(1)"
    ELSE "return"

\* check_valid_constants: how the call ends.
check_valid_constants(disk_radius, magnet_radius, offset_from_edge, magnet_path_radius, n) ==
    IF 2 * magnet_radius > disk_radius THEN "exit(1)"
    ELSE IF 2 * magnet_radius + offset_from_edge > disk_radius THEN "exit(1)"
    ELSE IF n > max_possible_magnet(2 * magnet_radius, magnet_path_radius) THEN "exit(1)"
    ELSE "return"

\* SpinningGenerator: DISK_RADIUS = 3.2, OFFSET_FROM_EDGE = 0.2
SG_DISK_RADIUS == 32000
SG_OFFSET_FROM_EDGE == 2000
\* MAGNET_RADIUS = 0.5 in the scene; 1.5 (diameter + offset equal to the disk
\* radius, and diameter equal to twice the path radius), 1.55 (diameter +
\* offset over the disk radius) and 1.7 (diameter over the disk radius)
\* besides.
MagnetRadiusInputs == {5000, 15000, 15500, 17000}
\* NUM_MAGNETS_START = 4 and NUM_MAGNETS_END = 12; the maximum for radius
\* 0.5 (15) and one more, and the maximum for radius 1.5 (2) besides.
NumMagnetsInputs == {2, 4, 12, 15, 16}

\* <<disk_radius, magnet_radius, offset_from_edge, magnet_path_radius, num_magnets>>
ValidationInputs ==
    {<<SG_DISK_RADIUS, r, SG_OFFSET_FROM_EDGE, SG_DISK_RADIUS - SG_OFFSET_FROM_EDGE - r, n>> :
        r \in MagnetRadiusInputs, n \in NumMagnetsInputs}

\* check_valid_constants(...) of SpinningGenerator.construct: the process
\* ends with status 1, or calculate_physics_data is entered (its magnet
\* setup included).
CheckValidConstants ==
    /\ prog = "spinning_generator"
    /\ pc = "validate"
    /\ IF check_valid_constants(prev_args[1], prev_args[2], prev_args[3], prev_args[4],
                                prev_args[5]) = "exit(1)"
       THEN /\ pc' = "exit"
            /\ result' = 1
            /\ UNCHANGED <<magnetVars, args>>
       ELSE /\ pc' = "flux"
            /\ args' = <<prev_args[5], prev_args[4], prev_args[2], DEGREES90>>
            /\ magnet_angles_start' = NormalizedMagnetAngles(prev_args[5])
            /\ magnet_polarities' = MagnetPolarities(prev_args[5])
            /\ result' = result
    /\ UNCHANGED <<prog, phaseVars, sweepVars, rotorVars, simVars, prev_args, prev_result>>
    /\ UNCHANGED <<streamVars, linearVars, time_tracker>>

\* prev_args holds the arguments of the check_valid_constants call.
InitSpinningGenerator ==
    /\ prog = "spinning_generator"
    /\ pc = "validate"
    /\ prev_args \in ValidationInputs
    /\ args = <<>>
    /\ result = 0
    /\ prev_result = 0
    /\ NoMagnets
    /\ NoPhase
    /\ NoSweep
    /\ NoRotor
    /\ NoSim
    /\ NoStream
    /\ NoLinear
    /\ NoPlayback

\* PHASE_1_DURATION = 8, PHASE_2_DURATION = 4.0 (seconds)
PHASE_1_DURATION == 8 * Second
PHASE_2_DURATION == 4 * Second
\* The duration of the phase being played.
PhaseDuration == IF pc = "phase2" THEN PHASE_2_DURATION ELSE PHASE_1_DURATION

\* idx of update_flux_curve: int((t / TOTAL_TIME) * len(points)), kept
\* within [0, len(points) - 1].
curve_index(t, points) ==
    Max(0, Min(Quot(t * Len(points), SIMULATION_TIME(prog)), Len(points) - 1))

\* Variant of PlayFrame whose tracker starts over at the end of the phase.
PlayFrame_wrapping ==
    /\ prog = "spinning_generator"
    /\ pc \in {"done", "phase2"}
    /\ time_tracker < PhaseDuration
    /\ time_tracker' = (time_tracker + Second) % PhaseDuration
    /\ result' = flux_data[curve_index(time_tracker', flux_data) + 1]
    /\ UNCHANGED <<ctlVars, magnetVars, phaseVars, sweepVars, rotorVars, simVars, args,
                   prev_args, prev_result, streamVars, linearVars>>

\* One frame of self.play(time_tracker.animate.set_value(..), rate_func=linear)
\* (a second of it): the tracker advances and update_flux_curve reads the
\* point of the current series at the new time into result.
PlayFrame ==
    /\ prog = "spinning_generator"
    /\ pc \in {"done", "phase2"}
    /\ time_tracker < PhaseDuration
    /\ time_tracker' = time_tracker + Second
    /\ result' = flux_data[curve_index(time_tracker', flux_data) + 1]
    /\ UNCHANGED <<ctlVars, magnetVars, phaseVars, sweepVars, rotorVars, simVars, args,
                   prev_args, prev_result, streamVars, linearVars>>

\* The transition after phase 1: the data source is switched and
\* time_tracker.set_value(0)
SwitchDataSource ==
    /\ prog = "spinning_generator"
    /\ pc = "done"
    /\ time_tracker = PHASE_1_DURATION
    /\ time_tracker' = 0
    /\ pc' = "phase2"
    /\ UNCHANGED <<prog, magnetVars, phaseVars, sweepVars, rotorVars, simVars, callVars,
                   streamVars, linearVars>>

----------------------------------------------------------------------------
(* magnet_stream_scene.py: StreamManager and scene_update (lengths in FP   *)
(* units, times in ms; opacity, texts and curves are left out)             *)

\* magnet_radius = 0.5, phys_speed = 0.8, phy_center_x = 0
MS_magnet_radius == 5000
phys_speed == 8000
phy_center_x == 0
\* StreamManager(self, phy_y, -6.0, 8.0, phys_speed)
start_x == -6 * FP
end_x == 8 * FP
\* `if len(self.data_time) > 400`: the length the histories are cut to.
HistoryLimit == 2
\* Frames of a run.
MaxFrames == 4

\* Variant of spawn_magnet that makes every magnet a north pole.
spawn_magnet_north(stream, x_pos, is_alternating) ==
    LET counter == stream.magnet_counter + 1
        obj == [x |-> x_pos, polarity_sign |-> 1, strength_mult |-> FP, serial |-> counter]
    IN  [stream EXCEPT !.magnet_objects = Append(@, obj), !.magnet_counter = counter]

\* StreamManager.spawn_magnet: `serial` stands for the identity of the new
\* mobject.
spawn_magnet(stream, x_pos, is_alternating) ==
    LET counter == stream.magnet_counter + 1
        is_north == IF is_alternating THEN counter % 2 # 0 ELSE TRUE
        obj == [x |-> x_pos, polarity_sign |-> IF is_north THEN 1 ELSE -1,
                strength_mult |-> FP, serial |-> counter]
    IN  [stream EXCEPT !.magnet_objects = Append(@, obj), !.magnet_counter = counter]

\* The `while dist_moved >= required_stride` loop of update; safety_break
\* records that the loop was left by its `break`.
RECURSIVE catch_up(_, _, _, _)
catch_up(stream, last_x, required_stride, is_alternating) ==
    IF last_x - start_x >= required_stride
    THEN LET new_x == last_x - required_stride
             spawned == spawn_magnet(stream, new_x, is_alternating)
         IN  IF new_x < start_x - required_stride
             THEN [spawned EXCEPT !.safety_break = TRUE]
             ELSE catch_up(spawned, new_x, required_stride, is_alternating)
    ELSE stream

\* Variant of move_and_remove that leaves the magnets beyond end_x in the
\* stream.
move_without_remove(objs, move_dist) ==
    [k \in 1..Len(objs) |-> [objs[k] EXCEPT !.x = @ + move_dist]]

\* Part 1 of update: every magnet shifted right by move_dist, those beyond
\* end_x moved to the trash.
move_and_remove(objs, move_dist) ==
    SelectSeq([k \in 1..Len(objs) |-> [objs[k] EXCEPT !.x = @ + move_dist]],
              LAMBDA obj : ~(obj.x > end_x))

\* Part 2 of update on the magnets that are left.
spawn_logic(stream, required_stride, is_alternating) ==
    IF stream.magnet_objects = <<>>
    THEN spawn_magnet(stream, start_x, is_alternating)
    ELSE catch_up(stream, stream.magnet_objects[Len(stream.magnet_objects)].x,
                  required_stride, is_alternating)

\* Variant of update that spawns before it removes.
update_spawn_first(stream, delta, spacing_gap, r, is_alternating) ==
    LET shifted == [stream EXCEPT !.magnet_objects =
                       [k \in 1..Len(@) |->
                           [@[k] EXCEPT !.x = @ + Quot(phys_speed * delta, MillisPerSecond)]]]
        spawned == spawn_logic(shifted, 2 * r + spacing_gap, is_alternating)
    IN  [spawned EXCEPT !.magnet_objects = move_and_remove(@, 0)]

\* StreamManager.update(dt, spacing_gap, magnet_radius, is_alternating, ..)
\* on stream = [magnet_objects, magnet_counter, safety_break]; delta is dt.
update(stream, delta, spacing_gap, r, is_alternating) ==
    spawn_logic([stream EXCEPT !.magnet_objects =
                    move_and_remove(@, Quot(phys_speed * delta, MillisPerSecond))],
                2 * r + spacing_gap, is_alternating)

\* Variant of update_strength_visuals that also turns the poles when the
\* strength is raised.
update_strength_visuals_turning(objs, strength_val) ==
    [k \in 1..Len(objs) |->
        [objs[k] EXCEPT !.strength_mult = strength_val,
                        !.polarity_sign = IF strength_val > FP THEN -@ ELSE @]]

\* StreamManager.update_strength_visuals
update_strength_visuals(objs, strength_val) ==
    [k \in 1..Len(objs) |-> [objs[k] EXCEPT !.strength_mult = strength_val]]

\* total_flux of scene_update: the magnets within check_range of the coil.
stream_total_flux(objs, c_width) ==
    LET check_range == Quot(c_width, 2) + MS_magnet_radius + FP
        f(k) ==
            IF Abs(objs[k].x - phy_center_x) < check_range
            THEN calculate_single_magnet_flux(objs[k].x - phy_center_x, c_width,
                                              MS_magnet_radius,
                                              objs[k].strength_mult * objs[k].polarity_sign)
            ELSE 0
    IN  SumSeq([k \in 1..Len(objs) |-> f(k)])

\* current_volt of scene_update
current_volt(total_flux, delta) ==
    IF Len(data_flux) > 0 /\ 10000 * delta > MillisPerSecond
    THEN -Quot((total_flux - data_flux[Len(data_flux)]) * MillisPerSecond, delta)
    ELSE 0

\* Variant of prune that never cuts a history.
prune_never(data) == data

\* data = data[bg:] with bg = len(data) - 400 when the list is longer.
prune(data) ==
    IF Len(data) > HistoryLimit THEN SubSeq(data, Len(data) - HistoryLimit + 1, Len(data))
    ELSE data

\* dt of a frame (ms): none, 0.625 s, 6.25 s and 20 s (the belt moves 0, 0.5, 5
\* and 16).
DtInputs == {0, 625, 6250, 20000}
\* Slider values <<width, spacing, strength>>: the start values and the
\* targets of the animation script.
SliderInputs == {<<FP, 0, FP>>, <<25000, 15000, 30000>>}

\* The end of scene_update: the frame's time, flux and voltage are appended
\* to the histories, which are then pruned; the stream is as update left it.
record_frame(objs, counter, total_flux, delta, sliders) ==
    /\ global_time' = global_time + delta
    /\ coil_width_value' = sliders[1]
    /\ magnet_objects' = objs
    /\ magnet_counter' = counter
    /\ data_time' = prune(Append(data_time, global_time + delta))
    /\ data_flux' = prune(Append(data_flux, total_flux))
    /\ data_volt' = prune(Append(data_volt, current_volt(total_flux, delta)))
    /\ args' = <<delta, sliders[2], MS_magnet_radius, TRUE, sliders[3]>>

\* The physics of scene_update on the magnets objs: c_width was read before
\* self.coil_width.set_value.
measure_frame(objs, counter, delta, sliders) ==
    record_frame(objs, counter, stream_total_flux(objs, coil_width_value), delta, sliders)

\* stream.update_strength_visuals(c_strength) on the stream update returned.
strengthen_frame(stream, delta, sliders) ==
    measure_frame(update_strength_visuals(stream.magnet_objects, sliders[3]),
                  stream.magnet_counter, delta, sliders)

\* One call of scene_update(mob, dt).
SceneUpdate ==
    /\ prog = "magnet_stream"
    /\ pc = "frames"
    /\ step < MaxFrames
    /\ \E delta \in DtInputs, sliders \in SliderInputs :
          strengthen_frame(update([magnet_objects |-> magnet_objects,
                                   magnet_counter |-> magnet_counter,
                                   safety_break |-> FALSE],
                                  delta, sliders[2], MS_magnet_radius, TRUE),
                           delta, sliders)
    /\ step' = step + 1
    /\ UNCHANGED <<ctlVars, magnetVars, phaseVars, voltage_trace, flux_data, prev_flux,
                   rotorVars, simVars, result, prev_args, prev_result, linearVars, time_tracker>>

\* MagnetStreamScene.construct up to the first frame.
InitMagnetStream ==
    /\ prog = "magnet_stream"
    /\ pc = "frames"
    /\ magnet_objects = <<>>
    /\ magnet_counter = 0
    /\ coil_width_value = FP
    /\ global_time = 0
    /\ data_time = <<>>
    /\ data_flux = <<>>
    /\ data_volt = <<>>
    /\ NoMagnets
    /\ NoPhase
    /\ NoSweep
    /\ NoRotor
    /\ NoSim
    /\ NoCalls
    /\ NoLinear
    /\ NoPlayback

----------------------------------------------------------------------------
(* Calls of get_area_between_circle with the distances get_theta_distance  *)
(* hands it                                                                 *)

\* The results of get_theta_distance over the angles a caller may pass.
ThetaDistInputs == {get_theta_distance(a, b) : a, b \in AngleInputs}

\* <<orbit_radius, r>>: the phase scenes (2.0, 0.8), the defaults of
\* calculate_physics_data (2.5, 0.5), and a magnet as wide as its orbit
\* (d = 2r at theta_dist = 60 degrees).
OrbitInputs ==
    {<<MAGNET_PATH_RADIUS, MAGNET_RADIUS>>, <<25000, 5000>>, <<20000, 10000>>}

\* result = get_area_between_circle(theta_dist, orbit_radius, r)
CallAreaBetweenCircle ==
    /\ prog = "area_between_circle"
    /\ pc = "call"
    /\ result' = get_area_between_circle(args[1], args[2], args[3])
    /\ pc' = "returned"
    /\ UNCHANGED <<prog, magnetVars, phaseVars, sweepVars, rotorVars, simVars,
                   args, prev_args, prev_result>>
    /\ UNCHANGED <<streamVars, linearVars, time_tracker>>

InitAreaBetweenCircle ==
    /\ prog = "area_between_circle"
    /\ pc = "call"
    /\ args \in {<<th, o[1], o[2]>> : th \in ThetaDistInputs, o \in OrbitInputs}
    /\ result = 0
    /\ prev_args = <<>>
    /\ prev_result = 0
    /\ NoMagnets
    /\ NoPhase
    /\ NoSweep
    /\ NoRotor
    /\ NoSim
    /\ NoStream
    /\ NoLinear
    /\ NoPlayback

----------------------------------------------------------------------------
(* Queries of the finished lookup table at times drawn from a bounded set  *)

\* Every tick from one period before 0 to one period after it.
QueryTimeInputs == (-TWO_PI)..TWO_PI

\* int(fractional_idx) % lookup_steps, (idx_low + 1) % lookup_steps and
\* alpha = fractional_idx - int(fractional_idx) (in ticks) of
\* get_smoothed_flux_at_angle, int() rounding toward zero.
query_indices(phase) ==
    LET int_idx == Quot(phase, TicksPerSample)
        idx_low == int_idx % lookup_steps
    IN  [idx_low |-> idx_low,
         idx_high |-> (idx_low + 1) % lookup_steps,
         alpha |-> phase - TicksPerSample * int_idx]

\* get_smoothed_flux_at_angle(t, coil_angle) on the table the scene built,
\* for a coil at its final position.
QueryTable ==
    /\ prog \in PhaseProgs
    /\ pc = "done"
    /\ \E t \in QueryTimeInputs, c \in 1..NumCoils :
          LET coil_angle == CoilAngle(prog, c, MOVE_START + MOVE_DURATION)
          IN  /\ args' = <<t, coil_angle>>
              /\ result' = SmoothedFlux(prog, t, coil_angle)
    /\ pc' = "queried"
    /\ UNCHANGED <<prog, magnetVars, phaseVars, sweepVars, rotorVars, simVars,
                   prev_args, prev_result>>
    /\ UNCHANGED <<streamVars, linearVars, time_tracker>>

----------------------------------------------------------------------------
Init ==
    \/ InitPhase
    \/ InitCalls
    \/ InitStrip
    \/ InitCustom
    \/ InitPhysics
    \/ InitSpinning
    \/ InitCoilFlux
    \/ InitSimulation
    \/ InitZeroSum
    \/ InitScenario
    \/ InitVoltageFunction
    \/ InitSpinningGenerator
    \/ InitAreaBetweenCircle
    \/ InitMagnetStream
    \/ InitLayout
    \/ InitLinearSimulation

Next ==
    \/ BuildLookup
    \/ SmoothLookup
    \/ TraceStep
    \/ StoreTrace
    \/ QueryTable
    \/ CallThetaDistance
    \/ CallFluxAtInstant
    \/ CallSingleMagnetFlux
    \/ CallTotalFlux
    \/ CustomStep
    \/ CustomReturn
    \/ PhysicsFluxStep
    \/ PhysicsSmooth
    \/ PhysicsVoltageStep
    \/ PhysicsReturn
    \/ CoilStep
    \/ RotateMagnets
    \/ CallCoilFlux
    \/ SimStep
    \/ SimFinish
    \/ SumIndicatorFrame
    \/ ScenarioStep
    \/ ScenarioReturn
    \/ CallVoltageFunction
    \/ CheckValidConstants
    \/ PlayFrame
    \/ SwitchDataSource
    \/ CallAreaBetweenCircle
    \/ SceneUpdate
    \/ CallSafeMoveTo
    \/ CallSafeShift
    \/ LinearMagnetStep
    \/ LinearNextStep

Spec == Init /\ [][Next]_vars

----------------------------------------------------------------------------
(* Properties                                                              *)

\* C1: in scene_phase_shift, at every step of a coil's trace whose table
\* phase falls on a sample point, the raw lookup table queried at the
\* scene's effective time t - (coil_angle - PI/2) / ROTATION_SPEED holds the
\* flux that calculate_flux_at_instant computes directly for that coil
\* angle at that time.
C1_LookupEqualsDirect ==
    (prog = "phase_shift" /\ pc = "trace" /\ step < PHYSICS_STEPS(prog)) =>
        LET t == step * dt(prog)
            coil_angle == CoilAngle(prog, coil_i, t)
            phase == shift_phase(t, coil_angle)
        IN  phase % TicksPerSample = 0 =>
                InterpolateTable(flux_lookup, phase)
                    = TicksPerSample * calculate_flux_at_instant(t, coil_angle)

\* C2: for all angles theta1, theta2 (normalized or not) the angular
\* distance is symmetric and lies in [0, pi].
C2_ThetaDistanceSymmetricInRange ==
    (prog = "theta_distance" /\ pc = "returned") =>
        /\ result = get_theta_distance(args[2], args[1])
        /\ 0 <= result
        /\ result <= PI

\* C3: a table query of the trace loop whose phase falls exactly on sample i
\* returns table[i]; one midway between sample i and the next returns the
\* mean of the two; the sample after the last one is table[0].
C3_TableQuery ==
    (prog \in PhaseProgs /\ pc = "trace" /\ step >= 2) =>
        LET t == (step - 1) * dt(prog)
            phase == QueryPhase(prog, t, CoilAngle(prog, coil_i, t))
            i == phase \div TicksPerSample
            a == flux_lookup_smoothed[i + 1]
            b == flux_lookup_smoothed[(IF i = lookup_steps - 1 THEN 0 ELSE i + 1) + 1]
        IN  /\ phase % TicksPerSample = 0 => flux_now = TicksPerSample * a
            /\ 2 * (phase % TicksPerSample) = TicksPerSample
                   => 2 * flux_now = TicksPerSample * (a + b)

\* A query of the trace loop midway between the last sample and table[0],
\* the two samples differing.
C3_Witness ==
    /\ prog \in PhaseProgs /\ pc = "trace" /\ step >= 2
    /\ LET t == (step - 1) * dt(prog)
           phase == QueryPhase(prog, t, CoilAngle(prog, coil_i, t))
       IN  /\ phase \div TicksPerSample = lookup_steps - 1
           /\ 2 * (phase % TicksPerSample) = TicksPerSample
           /\ flux_lookup_smoothed[lookup_steps] # flux_lookup_smoothed[1]

\* The net flux change a sweep's voltage series should integrate to, and the
\* integral itself (both times Second, which keeps them whole numbers).
SweepEnded ==
    \/ prog \in PhaseProgs /\ pc = "trace" /\ step = PHYSICS_STEPS(prog)
    \/ prog \in {"voltage_trace_custom", "physics_data"} /\ pc = "done"

NetFluxChange ==
    IF prog \in PhaseProgs
    THEN LET t_end == (PHYSICS_STEPS(prog) - 1) * dt(prog)
         IN  SmoothedFlux(prog, t_end, CoilAngle(prog, coil_i, t_end))
                 - SmoothedFlux(prog, 0, CoilAngle(prog, coil_i, 0))
    ELSE IF prog = "voltage_trace_custom"
    THEN prev_flux[1] - custom_total_flux(0, args[2], args[3], args[4])
    ELSE flux_data[Len(flux_data)] - flux_data[1]

RECURSIVE SumRange(_, _, _)
SumRange(s, lo, hi) ==
    IF lo > hi THEN 0
    ELSE IF lo = hi THEN s[lo]
    ELSE SumRange(s, lo, (lo + hi) \div 2) + SumRange(s, (lo + hi) \div 2 + 1, hi)
VoltageIntegral == SumRange(voltage_trace, 1, Len(voltage_trace)) * dt(prog)

CoilIsFixed ==
    \A s \in 0..(PHYSICS_STEPS(prog) - 1) :
        CoilOffset(prog, coil_i, s * dt(prog)) = CoilOffset(prog, coil_i, 0)

\* C4 (as claimed): for every sweep, moving coils included, the sum of
\* V[i] * dt over the sweep equals Phi(end) - Phi(start) of the same coil.
C4_IntegralIsFluxChange ==
    SweepEnded => VoltageIntegral = NetFluxChange * Second

\* C4 (amended): the sum of V[i] * dt equals Phi(end) - Phi(start) for
\* calculate_physics_data and for the lookup traces of coils whose angle is
\* fixed; for calculate_voltage_trace_custom, whose voltage is -dPhi/dt, it
\* equals -(Phi(end) - Phi(start)); for a coil whose angle changes each
\* V[i] * dt equals the flux change over the last dt at the coil's current
\* angle.
C4_IntegralAmended ==
    /\ SweepEnded =>
          IF prog = "voltage_trace_custom"
          THEN VoltageIntegral = -NetFluxChange * Second
          ELSE (prog = "physics_data" \/ CoilIsFixed)
                   => VoltageIntegral = NetFluxChange * Second
    /\ (prog \in PhaseProgs /\ pc = "trace" /\ step >= 2) =>
          voltage_trace[step] * dt(prog) = (flux_now - flux_prev) * Second

\* A finished calculate_physics_data sweep with a net flux change.
C4_Witness ==
    /\ prog = "physics_data" /\ pc = "done"
    /\ flux_data[Len(flux_data)] # flux_data[1]
    /\ voltage_trace[1] = 0

\* Peaks of a voltage series v among the steps lo..hi (1-based): a positive
\* peak is a positive local maximum, a negative peak a negative local minimum.
SampleAt(v, i) == IF i \in 1..Len(v) THEN v[i] ELSE 0
PositivePeaks(v, lo, hi) ==
    Cardinality({i \in lo..hi : /\ v[i] > 0
                                /\ v[i] > SampleAt(v, i - 1)
                                /\ v[i] >= SampleAt(v, i + 1)})
NegativePeaks(v, lo, hi) ==
    Cardinality({i \in lo..hi : /\ v[i] < 0
                                /\ v[i] < SampleAt(v, i - 1)
                                /\ v[i] <= SampleAt(v, i + 1)})

FourMagnetSweepDone ==
    /\ prog \in {"voltage_trace_custom", "physics_data"}
    /\ pc = "done"
    /\ args[1] = 4

\* C5 (as claimed): with 4 alternating magnets the voltage trace of one full
\* revolution has exactly 4 peaks, 2 positive and 2 negative.
C5_FourPeaks ==
    FourMagnetSweepDone =>
        /\ PositivePeaks(voltage_trace, 1, TicksPerRev) = 2
        /\ NegativePeaks(voltage_trace, 1, TicksPerRev) = 2

\* C5 (amended): with 4 alternating magnets the voltage trace of one full
\* revolution has exactly 4 positive and 4 negative peaks (each passing
\* magnet gives one of either sign).
C5_EightPeaks ==
    FourMagnetSweepDone =>
        /\ PositivePeaks(voltage_trace, 1, TicksPerRev) = 4
        /\ NegativePeaks(voltage_trace, 1, TicksPerRev) = 4

\* A finished 4-magnet sweep of calculate_voltage_trace_custom.
C5_Witness ==
    /\ prog = "voltage_trace_custom" /\ pc = "done" /\ args[1] = 4
    /\ Len(voltage_trace) = 2 * TicksPerRev
    /\ PositivePeaks(voltage_trace, 1, TicksPerRev) > 0

\* Largest magnitude among the finished traces of the three static coils.
RECURSIVE MaxAbs(_)
MaxAbs(s) == IF s = <<>> THEN 0 ELSE Max(Abs(Head(s)), MaxAbs(Tail(s)))
TraceAmplitude == Max(MaxAbs(coil_data[1]), Max(MaxAbs(coil_data[2]), MaxAbs(coil_data[3])))

\* C6 (as claimed): the voltage samples of the three coils at 0, 120 and 240
\* degrees around the 2-magnet rotor, taken at the same step, sum to 0 within
\* a tolerance of 1% of the traces' amplitude.
C6_StaticCoilsSumToZero ==
    (prog = "phase_static" /\ pc = "done") =>
        \A s \in 1..PHYSICS_STEPS(prog) :
            100 * Abs(coil_data[1][s] + coil_data[2][s] + coil_data[3][s]) <= TraceAmplitude

\* C6 (amended): the three ideal sinusoidal phases of ZeroSumStackScene,
\* AMPLITUDE * sin(OMEGA t + k * 2 pi / 3), sampled at the same instant, sum
\* to 0 within a tolerance of 1% of the amplitude.
C6_IdealPhasesSumToZero ==
    (prog = "zero_sum" /\ step > 0) => 100 * Abs(result) <= AMPLITUDE

\* A frame of the sweep at which none of the three phases is near zero.
C6_Witness ==
    /\ prog = "zero_sum" /\ step > 0
    /\ \A k \in 1..3 : 4 * Abs(args[k]) >= AMPLITUDE

\* C7: two magnets of the same radius and opposite polarity at the same
\* position contribute a net flux of exactly 0, on the linear track
\* (calculate_total_flux) and on the rotor (total_flux_this_step).
C7_OppositePairCancels ==
    /\ (prog = "total_flux" /\ pc = "returned"
            /\ args[1][1][1] = args[1][2][1] /\ args[1][1][2] = -args[1][2][2])
          => result = 0
    /\ (prog = "coil_flux" /\ pc = "returned"
            /\ args[2][1].theta = args[2][2].theta
            /\ args[2][1].north_pole # args[2][2].north_pole)
          => result = 0

\* A coinciding opposite pair each of which overlaps the coil window.
C7_Witness ==
    /\ prog = "total_flux" /\ pc = "returned"
    /\ args[1][1][1] = args[1][2][1] /\ args[1][1][2] = -args[1][2][2]
    /\ calculate_total_flux(<<args[1][1]>>, args[2], args[3]) > 0
    /\ result = 0

\* The coil window of a calculate_single_magnet_flux call contains the disc.
StripWindowContainsDisc ==
    /\ -Quot(args[2], 2) - args[1] <= -args[3]
    /\ Quot(args[2], 2) - args[1] >= args[3]

\* The window of simulation.py contains the disc of magnet k at the time of
\* the last field_emitted calls.
SimWindowContainsDisc(k) ==
    LET centre == magnets[k]._inital_x + MulFP(magnets[k].velocity, args[5])
    IN  args[1] <= centre - RADIUS /\ centre + RADIUS <= args[2]

\* C8 (as claimed): whenever the coil window fully contains the disc of a
\* magnet of polarity +1, the single-magnet flux equals the disc area pi r^2.
C8_FullDiscArea ==
    /\ (prog = "single_magnet_flux" /\ args # <<>> /\ args[4] = FP /\ StripWindowContainsDisc)
          => result = MulFP(PI_FP, MulFP(args[3], args[3]))
    /\ (prog = "simulation" /\ step > 0) =>
          \A k \in 1..Len(magnets) :
              (magnets[k].polarity = 1 /\ SimWindowContainsDisc(k))
                  => result[k] = MulFP(PI_FP, MulFP(RADIUS, RADIUS))

\* C8 (amended): whenever the coil window fully contains the disc, the
\* closed-form single-magnet flux equals b_field_strength * pi r^2 (pi r^2 at
\* strength +1), and the sampled-point flux of Magnet.field_emitted equals
\* the polarity (+1.0 or -1.0: the fraction of sample points inside).
C8_FullDiscFlux ==
    /\ (prog = "single_magnet_flux" /\ args # <<>> /\ StripWindowContainsDisc)
          => result = MulFP(args[4], MulFP(PI_FP, MulFP(args[3], args[3])))
    /\ (prog = "simulation" /\ step > 0) =>
          \A k \in 1..Len(magnets) :
              SimWindowContainsDisc(k) => result[k] = magnets[k].polarity * FP

\* The example: radius 0.5, strength +1, window of width 2.0 centred on the disc.
C8_Witness ==
    /\ prog = "single_magnet_flux"
    /\ args = <<0, 2 * FP, FP \div 2, FP>>
    /\ result = 7854

\* The window of the last call contains the window of the call before.
WindowWidened ==
    /\ args[3] = prev_args[3] /\ args[4] = prev_args[4]
    /\ -Quot(args[2], 2) - args[1] <= -Quot(prev_args[2], 2) - prev_args[1]
    /\ Quot(args[2], 2) - args[1] >= Quot(prev_args[2], 2) - prev_args[1]

\* C9: for every radius and disc position the overlap area (the flux over
\* the field strength) does not decrease when the window is widened to the
\* left, to the right or both.
C9_WideningMonotone ==
    (prog = "single_magnet_flux" /\ prev_args # <<>> /\ WindowWidened) =>
        IF args[4] > 0 THEN result >= prev_result ELSE result <= prev_result

\* A widening that uncovers more of the disc.
C9_Witness ==
    /\ prog = "single_magnet_flux" /\ prev_args # <<>> /\ WindowWidened
    /\ args[4] > 0
    /\ result > prev_result
    /\ prev_result > 0

----------------------------------------------------------------------------
(* Voltage extraction                                                      *)

\* The finite differences of a flux series sampled dt (a count of steps per
\* second sps) apart.
BackwardDifference(flux_t, flux_before, sps) == (flux_t - flux_before) * sps

\* The last voltage of calculate_physics_data, of the phase scenes, of the
\* rotor loop and of simulation.py is 0 (or absent) at the first step and the
\* backward difference of the coil's fluxes afterwards.
BackwardSites ==
    /\ (prog = "physics_data" /\ pc = "voltage" /\ step > 0) =>
           voltage_trace[step] =
               IF step = 1 THEN 0
               ELSE BackwardDifference(flux_data[step], flux_data[step - 1],
                                       StepsPerSecond(prog))
    /\ (prog \in PhaseProgs /\ pc = "trace" /\ step > 0) =>
           LET t == (step - 1) * dt(prog)
               coil_angle == CoilAngle(prog, coil_i, t)
           IN  voltage_trace[step] =
                   IF step = 1 THEN 0
                   ELSE BackwardDifference(SmoothedFlux(prog, t, coil_angle),
                                           SmoothedFlux(prog, t - dt(prog), coil_angle),
                                           StepsPerSecond(prog))
    /\ prog = "spinning_circle" =>
           \A c \in DOMAIN coil_collection :
               \A n \in DOMAIN coil_collection[c].voltages :
                   coil_collection[c].voltages[n] =
                       Quot((coil_collection[c].fluxes[n + 1] - coil_collection[c].fluxes[n])
                                * STEPS_PER_ROTATION, time_per_rotation)
    /\ (prog = "simulation" /\ step > 0) =>
           voltage_trace[step] =
               IF step = 1 THEN 0
               ELSE Quot((flux_data[step] - flux_data[step - 1]) * FP, time_delta)

\* The central difference -(Phi(t + dt) - Phi(t - dt)) / (2 dt) of the
\* scenario's flux at the time of the last sample.
ScenarioCentral ==
    LET t == (step - 1) * SampleSpacing
    IN  Quot(-(time_flux(args[1], t + VF_dt) - time_flux(args[1], t - VF_dt))
                 * MillisPerSecond, 2 * VF_dt)

\* The backward difference of the raised-cosine flux at the last step.
CustomBackward ==
    LET t == (step - 1) * dt(prog)
    IN  BackwardDifference(custom_total_flux(t, args[2], args[3], args[4]),
                           custom_total_flux(t - dt(prog), args[2], args[3], args[4]),
                           StepsPerSecond(prog))

\* Differences of flux_function around a position, the magnet moving at
\* velocity 1 for the time h.
GaussianCentral(x, h) ==
    Quot(-(flux_function(x + h, DefaultPeak, DefaultWidth)
               - flux_function(x - h, DefaultPeak, DefaultWidth)) * FP, 2 * h)
GaussianBackward(x, h) ==
    Quot((flux_function(x, DefaultPeak, DefaultWidth)
              - flux_function(x - h, DefaultPeak, DefaultWidth)) * FP, h)
DifferenceSteps == {FP \div 2, FP}
\* Rounding of the fixed-point exponential, in voltage units.
GaussianTolerance == FP \div 500

\* C11 (as claimed): every voltage value is the central difference
\* -(Phi(t+dt) - Phi(t-dt)) / (2 dt) or the backward difference
\* (Phi(t) - Phi(t-dt)) / dt of flux samples of the same coil, in every
\* loop and function that produces a voltage.
C11_AlwaysFiniteDifference ==
    /\ BackwardSites
    /\ (prog = "analyze_scenario" /\ step > 0) => voltage_trace[step] = ScenarioCentral
    /\ (prog = "voltage_trace_custom" /\ step > 1) => voltage_trace[step] = CustomBackward
    /\ (prog = "voltage_function" /\ pc = "returned") =>
           \E h \in DifferenceSteps :
               \/ Abs(result - GaussianCentral(args[1], h)) <= GaussianTolerance
               \/ Abs(result - GaussianBackward(args[1], h)) <= GaussianTolerance

\* C11 (amended): every voltage sample of the simulation loops comes from
\* flux samples of the same coil by finite differencing: the central
\* difference in get_voltage (analyze_scenario then zeroes the samples
\* before t = 0.05), the backward difference in calculate_physics_data, the
\* phase scenes, the rotor loop and simulation.py (first sample 0 or
\* absent), and the negated backward difference in
\* calculate_voltage_trace_custom (first sample 0).
C11_LoopsDifferenceFlux ==
    /\ BackwardSites
    /\ (prog = "analyze_scenario" /\ step > 0) =>
           voltage_trace[step] =
               IF (step - 1) * SampleSpacing < GlitchTime THEN 0 ELSE ScenarioCentral
    /\ (prog = "voltage_trace_custom" /\ step > 0) =>
           voltage_trace[step] = IF step = 1 THEN 0 ELSE -CustomBackward

C11_Witness ==
    /\ prog = "analyze_scenario"
    /\ step > 0
    /\ (step - 1) * SampleSpacing >= GlitchTime
    /\ voltage_trace[step] # 0
    /\ voltage_trace[step] = ScenarioCentral

----------------------------------------------------------------------------
(* The cutoff of the geometry kernels                                      *)

\* The centres of the scenario's magnets relative to the coil at time tm.
ScenarioCentres(gap_ratio, tm) ==
    [k \in 1..num_magnets(gap_ratio) |->
        math_start_x + speed * tm + magnet_offsets(gap_ratio)[k]]

\* The strip flux of every magnet of the scenario summed, none skipped.
AllCentresFlux(gap_ratio, tm) ==
    SumSeq([k \in 1..num_magnets(gap_ratio) |->
               calculate_single_magnet_flux(ScenarioCentres(gap_ratio, tm)[k], VF_coil_width,
                                            VF_magnet_radius, b_strength)])

\* The strip flux of every magnet of magnet_data summed, none skipped.
AllDataFlux(magnet_data, coil_width, magnet_radius) ==
    SumSeq([k \in 1..Len(magnet_data) |->
               calculate_single_magnet_flux(magnet_data[k][1], coil_width, magnet_radius,
                                            magnet_data[k][2])])

\* The signed overlap of every magnet of the rotor with a coil, none skipped.
AllMagnetsOverlap(coil_theta, collection) ==
    SumSeq([k \in 1..Len(collection) |->
               signed_area(collection[k].north_pole,
                           get_area_between_circle(
                               get_theta_distance(coil_theta, collection[k].theta),
                               SC_MAGNET_PATH_RADIUS, SC_MAGNET_RADIUS))])

\* C12: the total flux the geometry kernels compute with their cutoff
\* (coil_width/2 + magnet_radius + 0.1 on the strip, THETA_PER_MAGNET on the
\* rotor) equals the sum of every magnet's contribution: a skipped magnet
\* contributes exactly 0.
C12_CutoffIsOptimization ==
    /\ (prog = "analyze_scenario" /\ step > 0) =>
           /\ flux_now = AllCentresFlux(args[1], (step - 1) * SampleSpacing + VF_dt)
           /\ flux_prev = AllCentresFlux(args[1], (step - 1) * SampleSpacing - VF_dt)
    /\ (prog = "total_flux" /\ pc = "returned") =>
           result = AllDataFlux(args[1], args[2], args[3])
    /\ (prog = "coil_flux" /\ pc = "returned") =>
           result = AllMagnetsOverlap(args[1], args[2])
    /\ (prog = "spinning_circle" /\ pc = "coils") =>
           \A c \in 1..(coil_i - 1) :
               coil_collection[c].fluxes[Len(coil_collection[c].fluxes)]
                   = AllMagnetsOverlap(coil_collection[c].theta, magnet_collection)

\* A scenario step with a magnet in the window and magnets beyond the cutoff.
C12_Witness ==
    /\ prog = "analyze_scenario"
    /\ step > 0
    /\ flux_now # 0
    /\ \E k \in 1..num_magnets(args[1]) :
           Abs(ScenarioCentres(args[1], (step - 1) * SampleSpacing + VF_dt)[k])
               >= Quot(VF_coil_width, 2) + VF_magnet_radius + FP \div 10

----------------------------------------------------------------------------
(* The raised-cosine kernel                                                *)

\* angle_diff of magnet k at the last step of calculate_voltage_trace_custom.
LastAngleDiff(k) ==
    normalize_angle_diff(
        ((magnet_angles_start[k] - ROTATION_SPEED * (step - 1) * dt(prog)) % TWO_PI)
            - args[3])

\* The most the raised cosine of this amplitude changes over one step of
\* the sweep: amplitude * (pi / 2) * (step angle / influence width).
RaisedCosineStep(amplitude) ==
    Quot(MulFP(amplitude, Quot(PI_FP, 2)) * ROTATION_SPEED * dt("voltage_trace_custom"),
         influence_width)

\* C13: in the raised-cosine kernel the flux is 0 whenever every magnet is
\* at least influence_width away from the coil, and from one step to the
\* next the flux never changes by more than the slope of the raised cosine
\* allows, also when a magnet enters or leaves the window.
C13_ZeroOutsideNoJump ==
    (prog = "voltage_trace_custom" /\ step > 0) =>
        /\ (\A k \in DOMAIN magnet_angles_start : Abs(LastAngleDiff(k)) >= influence_width)
               => prev_flux[1] = 0
        /\ Abs(voltage_trace[step])
               <= RaisedCosineStep(args[4]) * StepsPerSecond("voltage_trace_custom")

\* A magnet has just reached the edge of the window: it contributed at the
\* step before and contributes 0 now.
C13_Witness ==
    /\ prog = "voltage_trace_custom"
    /\ step > 1
    /\ \E k \in DOMAIN magnet_angles_start : Abs(LastAngleDiff(k)) = influence_width
    /\ prev_flux[1] = 0
    /\ voltage_trace[step] # 0

----------------------------------------------------------------------------
(* Rotation                                                                *)

\* The angle one rotor step turns a magnet by.
StepAngle == TWO_PI \div STEPS_PER_ROTATION

\* C14: after k steps of the rotor loop every magnet stands at
\* (initial angle - k * step angle) mod 2 pi, an angle in [0, 2 pi), and
\* after STEPS_PER_ROTATION steps at its initial angle again; the start
\* angles calculate_physics_data turns clockwise from lie in [0, 2 pi) and
\* its flux repeats after one revolution.
C14_ClockwiseModTwoPi ==
    /\ prog = "spinning_circle" =>
           \A k \in DOMAIN magnet_collection :
               /\ magnet_collection[k].theta
                      = (StartTheta(k - 1, MAGNET_ANGLE) - step * StepAngle) % TWO_PI
               /\ magnet_collection[k].theta >= 0
               /\ magnet_collection[k].theta < TWO_PI
               /\ step = STEPS_PER_ROTATION
                      => magnet_collection[k].theta = StartTheta(k - 1, MAGNET_ANGLE)
    /\ (prog = "physics_data" /\ pc = "flux") =>
           /\ \A k \in DOMAIN magnet_angles_start :
                  magnet_angles_start[k] >= 0 /\ magnet_angles_start[k] < TWO_PI
           /\ \A s \in DOMAIN flux_data :
                  s > TicksPerRev \div (ROTATION_SPEED * dt(prog))
                      => flux_data[s] = flux_data[s - TicksPerRev \div (ROTATION_SPEED * dt(prog))]

\* The rotor after one full revolution, the magnet that started at angle 0
\* having wrapped around at its first step.
C14_Witness ==
    /\ prog = "spinning_circle"
    /\ step = STEPS_PER_ROTATION
    /\ \E k \in DOMAIN magnet_collection :
           StartTheta(k - 1, MAGNET_ANGLE) = 0 /\ magnet_collection[k].theta = 0

----------------------------------------------------------------------------
(* Polarity balance                                                        *)

\* Steps of calculate_physics_data per revolution.
PhysicsStepsPerRev == TicksPerRev \div (ROTATION_SPEED * dt("physics_data"))

\* C15: with an even number of evenly spaced alternating magnets and a
\* fixed coil the fluxes of one full revolution sum to 0: exactly for the
\* fluxes of the rotor loop and the raw fluxes of calculate_physics_data,
\* and within a quarter of the peak flux (the reflected edge of the filter)
\* for the smoothed fluxes it returns.
C15_RevolutionSumsToZero ==
    /\ (prog = "spinning_circle" /\ pc = "done") =>
           \A c \in DOMAIN coil_collection :
               SumRange(coil_collection[c].fluxes, 1, STEPS_PER_ROTATION) = 0
    /\ (prog = "physics_data" /\ pc = "flux" /\ Len(flux_data) >= PhysicsStepsPerRev) =>
           SumRange(flux_data, 1, PhysicsStepsPerRev) = 0
    /\ (prog = "physics_data" /\ pc \in {"voltage", "done"}) =>
           4 * Abs(SumRange(flux_data, 1, PhysicsStepsPerRev)) <= MaxAbs(flux_data)

\* A finished revolution of the rotor with flux through the first coil.
C15_Witness ==
    /\ prog = "spinning_circle"
    /\ pc = "done"
    /\ \E n \in DOMAIN coil_collection[1].fluxes : coil_collection[1].fluxes[n] > 0
    /\ SumRange(coil_collection[1].fluxes, 1, STEPS_PER_ROTATION) = 0

----------------------------------------------------------------------------
\* The three refusals of a configuration, as the specification lists them.
ConfigurationRefused(disk_radius, magnet_radius, offset_from_edge, magnet_path_radius, n) ==
    \/ 2 * magnet_radius > disk_radius
    \/ 2 * magnet_radius + offset_from_edge > disk_radius
    \/ n > Quot(2 * PI_FP,
                2 * Asin(Quot(2 * magnet_radius * FP, 2 * magnet_path_radius)))
\* The checked configuration of a SpinningGenerator run is refused.
RunRefused ==
    ConfigurationRefused(prev_args[1], prev_args[2], prev_args[3], prev_args[4], prev_args[5])

\* C16: check_valid_constants ends the process with status 1 exactly when
\* the magnet diameter exceeds the disk radius, or diameter plus edge offset
\* exceeds it, or the magnet count exceeds floor(2 pi / theta); a refused run
\* never computes a flux or voltage step, and any other configuration (a
\* count equal to the maximum included) goes on into the simulation.
C16_ValidationRefusesExactly ==
    prog = "spinning_generator" =>
        /\ pc = "exit" => RunRefused /\ result = 1
        /\ RunRefused => pc \in {"validate", "exit"} /\ flux_data = <<>> /\ voltage_trace = <<>>
        /\ ~RunRefused => pc # "exit"
        /\ pc \in {"flux", "voltage", "done"} => ~RunRefused
\* A run asking for one magnet more than the maximum has exited with status
\* 1 before any flux step.
C16_Witness ==
    /\ prog = "spinning_generator"
    /\ pc = "exit"
    /\ result = 1
    /\ prev_args[5] = max_possible_magnet(2 * prev_args[2], prev_args[4]) + 1
\* A run asking for exactly the maximum has finished its simulation.
MaximumCountSimulated ==
    /\ prog = "spinning_generator"
    /\ pc = "done"
    /\ prev_args[5] = max_possible_magnet(2 * prev_args[2], prev_args[4])
    /\ Len(voltage_trace) = PHYSICS_STEPS(prog)

----------------------------------------------------------------------------
\* The chord get_area_between_circle computes from its arguments.
ChordOfCall == MulFP(2 * args[2], Sin(Quot(Radians(args[1]), 2)))
\* theta_per_magnet of a check_valid_constants call that reached it.
ValidationTheta == 2 * Asin(Quot(2 * prev_args[2] * FP, 2 * prev_args[4]))

\* circle_segment_area and check_valid_constants never pass acos/asin an
\* argument outside [-1, 1]: their tests (|x| >= r; diameter + offset over
\* the disk radius) come first.
GuardedCallsNeverRaise ==
    /\ prog \in {"single_magnet_flux", "total_flux", "analyze_scenario"} =>
            result # ValueError
    /\ prog = "spinning_generator" /\ pc # "validate" /\ ~RunRefused =>
            ValidationTheta # 2 * ValueError
\* get_area_between_circle returns 0 from d = 2r on and an area for every
\* distance in [0, pi].
OvershootIsBoundary ==
    prog = "area_between_circle" /\ pc = "returned" =>
        /\ ChordOfCall >= 2 * args[3] => result = 0
        /\ args[1] >= 0 => result # ValueError
\* A call of get_area_between_circle at exact tangency (d = 2r).
TangencyReached ==
    prog = "area_between_circle" /\ pc = "returned" /\ ChordOfCall = 2 * args[3]
\* The validation of a magnet whose diameter is twice the path radius.
ValidationTangencyReached ==
    /\ prog = "spinning_generator"
    /\ pc = "exit"
    /\ prev_args[2] = prev_args[4]
    /\ ~(2 * prev_args[2] + prev_args[3] > prev_args[1])

\* C17: no acos/asin call of the geometry kernels or of the configuration
\* validation raises a domain error: tangency and every negative or
\* overshooting distance is treated as the boundary case.
C17_NeverDomainError ==
    /\ GuardedCallsNeverRaise
    /\ prog = "area_between_circle" /\ pc = "returned" => result # ValueError

----------------------------------------------------------------------------
\* A flux or voltage value, none of them the trace of a raised error.
Defined(x) == Abs(x) < (-ValueError) \div 2
\* The table phase of the query a phase scene has just answered.
QueriedPhase == QueryPhase(prog, args[1], args[2])

\* C18: every per-time-step evaluation of a valid configuration has a
\* defined result at every time (negative times and multiples of the period
\* included): a table query uses indices in [0, N-1] and a weight in [0, 1)
\* and returns a value between its two table entries, and every flux and
\* voltage sample of the loops is a number.
C18_EvaluationsTotal ==
    /\ prog \in PhaseProgs /\ pc = "queried" =>
          LET q == query_indices(QueriedPhase)
              flux_low == flux_lookup_smoothed[q.idx_low + 1]
              flux_high == flux_lookup_smoothed[q.idx_high + 1]
          IN  /\ q.idx_low \in 0..(lookup_steps - 1)
              /\ q.idx_high \in 0..(lookup_steps - 1)
              /\ q.alpha \in 0..(TicksPerSample - 1)
              /\ result = TicksPerSample * flux_low + q.alpha * (flux_high - flux_low)
              /\ Defined(result)
    /\ prog \in PhaseProgs \cup PhysicsProgs =>
          /\ \A k \in DOMAIN flux_lookup : Defined(flux_lookup[k])
          /\ \A k \in DOMAIN flux_data : Defined(flux_data[k])
          /\ \A k \in DOMAIN voltage_trace : Defined(voltage_trace[k])
\* A query at a negative time, between two samples of the table, has been
\* answered with a flux other than 0.
C18_Witness ==
    /\ prog \in PhaseProgs
    /\ pc = "queried"
    /\ args[1] < 0
    /\ query_indices(QueriedPhase).alpha > 0
    /\ result # 0
\* A query a whole period before 0 has been answered from the first entry
\* of the table.
PeriodQueryAnswered ==
    /\ prog \in PhaseProgs
    /\ pc = "queried"
    /\ args[1] = -TWO_PI
    /\ QueriedPhase = 0
    /\ result = TicksPerSample * flux_lookup_smoothed[1]

----------------------------------------------------------------------------
\* The raw table of the scene's configuration as it is now: entry i is the
\* flux of a coil at 12 o'clock at time (i / lookup_steps) * period.
TableOfConfiguration ==
    [k \in 1..lookup_steps |->
        calculate_flux_at_instant(Quot((k - 1) * TWO_PI, lookup_steps * ROTATION_SPEED),
                                  DEGREES90)]
\* The table has been smoothed: the scene is past its build loop.
TableBuilt == prog \in PhaseProgs /\ pc \in {"trace", "done", "queried"}

\* What a step of a phase scene may do to the table and to the magnets it
\* was built from: append one entry while the build loop runs, smooth once
\* at its end, nothing after that.
TableStep ==
    /\ magnet_angles_start' = magnet_angles_start
    /\ magnet_polarities' = magnet_polarities
    /\ \/ flux_lookup' = flux_lookup
       \/ /\ ~TableBuilt
          /\ Len(flux_lookup) < lookup_steps
          /\ flux_lookup_smoothed = <<>>
          /\ flux_lookup_smoothed' = <<>>
          /\ SubSeq(flux_lookup', 1, Len(flux_lookup)) = flux_lookup
          /\ Len(flux_lookup') = Len(flux_lookup) + 1
    /\ \/ flux_lookup_smoothed' = flux_lookup_smoothed
       \/ ~TableBuilt /\ TableBuilt' /\ flux_lookup_smoothed = <<>>

\* C19: the lookup table is built once per configuration (each entry is
\* appended once and the table is smoothed once), is never modified after
\* that, and every query is answered from the table of the configuration in
\* force: the magnets never change under a built table.
C19_TableBuiltOnceThenFrozen ==
    /\ [](TableBuilt =>
            /\ flux_lookup = TableOfConfiguration
            /\ flux_lookup_smoothed =
                   gaussian_filter1d(TableOfConfiguration,
                                     IF prog = "phase_static" THEN "wrap" ELSE "reflect"))
    /\ [][(prog \in PhaseProgs) => TableStep]_vars
\* The last coil's trace is under way: the table has answered the queries
\* of every coil before it without a rebuild.
C19_Witness ==
    /\ TableBuilt
    /\ pc = "trace"
    /\ coil_i = NumCoils
    /\ step > 1
    /\ flux_now # flux_prev
    /\ flux_lookup_smoothed # flux_lookup

----------------------------------------------------------------------------
\* The magnets as j rotations leave them, whatever the coils did meanwhile.
MagnetsAtStep(j) ==
    [k \in 1..NUM_OF_MAGNET |->
        [theta |-> (StartTheta(k - 1, MAGNET_ANGLE) - j * (TWO_PI \div STEPS_PER_ROTATION))
                       % TWO_PI,
         north_pole |-> (k - 1) % 2 = 0]]
\* What a step of the rotor loop may change: a coil's turn appends to that
\* coil's histories and to nothing else; the magnets move only when every
\* coil has had its turn, and then no coil changes.
RotorStep ==
    /\ \A c \in 1..NUM_COILS :
          /\ coil_collection'[c].theta = coil_collection[c].theta
          /\ c # coil_i => coil_collection'[c] = coil_collection[c]
          /\ \A k \in DOMAIN coil_collection[c].fluxes :
                coil_collection'[c].fluxes[k] = coil_collection[c].fluxes[k]
          /\ \A k \in DOMAIN coil_collection[c].voltages :
                coil_collection'[c].voltages[k] = coil_collection[c].voltages[k]
    /\ coil_i <= NUM_COILS =>
          /\ magnet_collection' = magnet_collection
          /\ Len(coil_collection'[coil_i].fluxes) = Len(coil_collection[coil_i].fluxes) + 1
    /\ magnet_collection' # magnet_collection =>
          coil_i = NUM_COILS + 1 /\ coil_collection' = coil_collection

\* C20: a coil's turn reads the magnets without changing them and appends
\* only to its own histories; the magnets advance only after every coil of
\* the step, so the flux a coil records at step j is the flux of its own
\* angle against the magnets after j rotations, and its voltage the
\* difference of its own two last fluxes: nothing of the other coils enters.
C20_CoilsIndependent ==
    /\ [](prog = "spinning_circle" =>
            /\ magnet_collection = MagnetsAtStep(step)
            /\ \A c \in 1..NUM_COILS :
                  LET coil == coil_collection[c]
                      n == Len(coil.fluxes)
                  IN  /\ n = (IF c < coil_i /\ pc = "coils" THEN step + 1 ELSE step)
                      /\ n > 0 =>
                            coil.fluxes[n] = coil_total_flux(coil.theta, MagnetsAtStep(n - 1))
                      /\ Len(coil.voltages) = (IF n > 0 THEN n - 1 ELSE 0)
                      /\ n > 1 =>
                            coil.voltages[n - 1] =
                                Quot((coil.fluxes[n] - coil.fluxes[n - 1]) * STEPS_PER_ROTATION,
                                     time_per_rotation))
    /\ [][(prog = "spinning_circle") => RotorStep]_vars
\* Every coil has had its turn at a step after the first, the magnets not
\* yet rotated, and two coils have recorded different fluxes.
C20_Witness ==
    /\ prog = "spinning_circle"
    /\ pc = "coils"
    /\ step > 0
    /\ coil_i = NUM_COILS + 1
    /\ \E c, e \in 1..NUM_COILS :
          coil_collection[c].fluxes[step + 1] # coil_collection[e].fluxes[step + 1]

----------------------------------------------------------------------------
\* The stream keeps every magnet's pole: a magnet still present after a
\* frame (same serial) has the polarity_sign it had before.
StreamKeepsPoles ==
    \A i \in DOMAIN magnet_objects, j \in DOMAIN magnet_objects' :
        magnet_objects'[j].serial = magnet_objects[i].serial =>
            magnet_objects'[j].polarity_sign = magnet_objects[i].polarity_sign
\* The Magnet objects of spinning_circle_simulation.py and simulation.py and
\* the polarity list of the rotary scenes keep their poles.
ObjectsKeepPoles ==
    /\ \A k \in DOMAIN magnet_collection :
          magnet_collection'[k].north_pole = magnet_collection[k].north_pole
    /\ \A k \in DOMAIN magnets : magnets'[k].polarity = magnets[k].polarity
    /\ magnet_polarities # <<>> => magnet_polarities' = magnet_polarities

\* C21: the polarity a magnet is created with is never changed by a later
\* movement, rotation, strength update or flux computation.
C21_PolarityFixed == [][StreamKeepsPoles /\ ObjectsKeepPoles]_vars
\* A south pole of the stream has moved on from the spawn point and has had
\* its strength raised.
C21_Witness ==
    /\ prog = "magnet_stream"
    /\ \E k \in DOMAIN magnet_objects :
          /\ magnet_objects[k].polarity_sign = -1
          /\ magnet_objects[k].x > start_x
          /\ magnet_objects[k].strength_mult > FP

----------------------------------------------------------------------------
\* Time stamp of sample k of a calculate_physics_data series: t = step * dt.
TimeStamp(k) == (k - 1) * dt(prog)
\* The time stamps of the stream's histories never decrease.
StampsInOrder ==
    \A i, j \in DOMAIN data_time : i < j => data_time[i] <= data_time[j]
\* No clock goes backwards in this step.
ClocksAdvance ==
    /\ global_time' >= global_time
    /\ current_t' >= current_t
    /\ time_tracker' >= time_tracker

StampRepeated ==
    /\ prog = "magnet_stream"
    /\ Len(data_time) > 1
    /\ data_time[Len(data_time)] = data_time[Len(data_time) - 1]
    /\ global_time > 0

----------------------------------------------------------------------------
\* The mobject fits inside the frame reduced by the margin on every side.
FitsInsideMargins ==
    /\ result.width <= FRAME_WIDTH - 2 * MARGIN
    /\ result.height <= FRAME_HEIGHT - 2 * MARGIN

\* C23: after safe_move_to or safe_shift an object that fits inside the
\* margin-reduced frame lies entirely on the screen: is_on_screen is true
\* for it and validate does not raise.
C23_SafeMoveKeepsOnScreen ==
    (prog = "layout" /\ pc = "moved" /\ FitsInsideMargins) =>
        is_on_screen(result) /\ validate(result) = "return"
\* An object with a size has been shifted against the right margin.
C23_Witness ==
    /\ prog = "layout"
    /\ pc = "moved"
    /\ FitsInsideMargins
    /\ result.width > 0
    /\ args[1] = "safe_shift"
    /\ result.center[1] + result.width \div 2 = SCREEN_RIGHT - MARGIN
\* An object wider than the margin-reduced frame is left off the screen.
TooWideLeftOffScreen ==
    prog = "layout" /\ pc = "moved" /\ ~is_on_screen(result) /\ result.width > FRAME_WIDTH

----------------------------------------------------------------------------
\* C24: in scene_phase_static, at every step of a fixed coil's trace that
\* falls on a table sample, the raw table queried at the effective time
\* t - (PI/2 - coil_angle) / ROTATION_SPEED holds the flux that
\* calculate_flux_at_instant computes directly for that coil angle at t.
C24_StaticLookupEqualsDirect ==
    (prog = "phase_static" /\ pc = "trace" /\ step < PHYSICS_STEPS(prog)) =>
        LET t == step * dt(prog)
            coil_angle == CoilAngle(prog, coil_i, t)
            phase == static_phase(t, coil_angle)
        IN  phase % TicksPerSample = 0 =>
                InterpolateTable(flux_lookup, phase)
                    = TicksPerSample * calculate_flux_at_instant(t, coil_angle)
\* The same with the coil angle brought into [0, 2 pi) before the direct
\* computation: the table itself is right for all three coils.
StaticLookupEqualsNormalizedDirect ==
    (prog = "phase_static" /\ pc = "trace" /\ step < PHYSICS_STEPS(prog)) =>
        LET t == step * dt(prog)
            coil_angle == CoilAngle(prog, coil_i, t)
            phase == static_phase(t, coil_angle)
        IN  phase % TicksPerSample = 0 =>
                InterpolateTable(flux_lookup, phase)
                    = TicksPerSample * calculate_flux_at_instant(t, coil_angle % TWO_PI)

----------------------------------------------------------------------------
\* C25: after the rotary sweep of spinning_circle_simulation every coil
\* holds one flux sample per step and one voltage sample per step after the
\* first; voltages[k] is the difference of fluxes[k+1] and fluxes[k] over dt,
\* and the flux sample of step j is the coil's flux for the magnets as j
\* rotations leave them, i.e. taken before the rotation of step j.
C25_SweepHistories ==
    (prog = "spinning_circle" /\ pc = "done") =>
        \A c \in 1..NUM_COILS :
            LET coil == coil_collection[c]
            IN  /\ Len(coil.fluxes) = STEPS_PER_ROTATION
                /\ Len(coil.voltages) = STEPS_PER_ROTATION - 1
                /\ \A k \in 1..(STEPS_PER_ROTATION - 1) :
                      coil.voltages[k] =
                          Quot((coil.fluxes[k + 1] - coil.fluxes[k]) * STEPS_PER_ROTATION,
                               time_per_rotation)
                /\ \A j \in 0..(STEPS_PER_ROTATION - 1) :
                      coil.fluxes[j + 1] = coil_total_flux(coil.theta, MagnetsAtStep(j))
\* The sweep is over and every coil has seen a changing flux.
C25_Witness ==
    /\ prog = "spinning_circle"
    /\ pc = "done"
    /\ step = STEPS_PER_ROTATION
    /\ \A c \in 1..NUM_COILS :
          \E k \in DOMAIN coil_collection[c].voltages : coil_collection[c].voltages[k] # 0

----------------------------------------------------------------------------
\* C26: after every StreamManager.update every magnet of the stream lies in
\* [start_x, end_x], magnet_objects is ordered by strictly decreasing x (so
\* its last element is the left-most magnet), and adjacent magnets are at
\* least one magnet diameter apart.
C26_StreamOrderedInsideBelt ==
    (prog = "magnet_stream" /\ step > 0) =>
        /\ \A k \in DOMAIN magnet_objects :
              start_x <= magnet_objects[k].x /\ magnet_objects[k].x <= end_x
        /\ \A k \in DOMAIN magnet_objects : \A m \in DOMAIN magnet_objects :
              k < m => magnet_objects[k].x > magnet_objects[m].x
        /\ \A k \in 1..(Len(magnet_objects) - 1) :
              magnet_objects[k].x - magnet_objects[k + 1].x >= 2 * MS_magnet_radius
\* An update has removed magnets at the right end and the belt is filled
\* again by more than one magnet, the newest at the left.
C26_Witness ==
    /\ prog = "magnet_stream"
    /\ step > 1
    /\ Len(magnet_objects) > 2
    /\ magnet_objects[1].serial > 1
    /\ magnet_objects[Len(magnet_objects)].serial = magnet_counter

----------------------------------------------------------------------------
\* C27: with is_alternating true the first magnet spawned is North and any
\* two magnets adjacent in the stream have opposite polarity, however many
\* magnets were removed and however many one update spawned.
C27_PolesAlternate ==
    prog = "magnet_stream" =>
        /\ \A k \in DOMAIN magnet_objects :
              magnet_objects[k].serial = 1 => magnet_objects[k].polarity_sign = 1
        /\ \A k \in 1..(Len(magnet_objects) - 1) :
              magnet_objects[k].polarity_sign = -magnet_objects[k + 1].polarity_sign
\* Magnets have left the belt and some update has spawned several at once.
C27_Witness ==
    /\ prog = "magnet_stream"
    /\ magnet_counter > step + 1
    /\ Len(magnet_objects) > 1
    /\ magnet_objects[1].serial > 1
\* The first magnet is on the belt, and it is a north pole.
FirstMagnetNorth ==
    /\ prog = "magnet_stream"
    /\ Len(magnet_objects) > 1
    /\ magnet_objects[1].serial = 1
    /\ magnet_objects[1].polarity_sign = 1

----------------------------------------------------------------------------
\* What one StreamManager.update may do to the stream: the loop is left by
\* its own test and never by the safety break; an empty belt gets one magnet,
\* otherwise at most floor((last_x - start_x) / stride) are added, last_x
\* being the left-most magnet after the move; the belt never carries more
\* than (end_x - start_x) / diameter + 1 magnets.
StreamUpdateStep ==
    LET delta == args'[1]
        required_stride == 2 * MS_magnet_radius + args'[2]
        moved == move_and_remove(magnet_objects, Quot(phys_speed * delta, MillisPerSecond))
        after == update([magnet_objects |-> magnet_objects,
                         magnet_counter |-> magnet_counter,
                         safety_break |-> FALSE],
                        delta, args'[2], MS_magnet_radius, TRUE)
        added == magnet_counter' - magnet_counter
    IN  /\ ~after.safety_break
        /\ added = after.magnet_counter - magnet_counter
        /\ added = Len(magnet_objects') - Len(moved)
        /\ IF moved = <<>>
           THEN added = 1
           ELSE added <= (moved[Len(moved)].x - start_x) \div required_stride
        /\ Len(magnet_objects') <= (end_x - start_x) \div (2 * MS_magnet_radius) + 1
\* C28: every StreamManager.update terminates: the catch-up loop adds at
\* most floor((last_x - start_x) / stride) magnets without the safety break,
\* and the stream never holds more than (end_x - start_x) / diameter + 1.
C28_UpdateBounded == [][(prog = "magnet_stream") => StreamUpdateStep]_vars
\* The belt is full: magnets one diameter apart from start_x to end_x.
C28_Witness ==
    /\ prog = "magnet_stream"
    /\ step > 0
    /\ Len(magnet_objects) = (end_x - start_x) \div (2 * MS_magnet_radius) + 1

----------------------------------------------------------------------------
\* What one frame does to the three histories: it puts this frame's time,
\* flux and voltage at their ends, and what is kept of the earlier frames
\* moves by the same offset in all three.
HistoryStep ==
    LET n == Len(data_time')
        offset == Len(data_time) + 1 - n
        total_flux == stream_total_flux(magnet_objects', coil_width_value)
    IN  /\ n > 0
        /\ data_time'[n] = global_time'
        /\ data_flux'[n] = total_flux
        /\ data_volt'[n] = current_volt(total_flux, args'[1])
        /\ \A i \in 1..(n - 1) :
              /\ data_time'[i] = data_time[i + offset]
              /\ data_flux'[i] = data_flux[i + offset]
              /\ data_volt'[i] = data_volt[i + offset]
\* C29: after every scene_update frame data_time, data_flux and data_volt
\* have the same length, at most the history limit (400 in the scene), and
\* index i of the three lists refers to the same frame.
C29_HistoriesAligned ==
    /\ [](prog = "magnet_stream" =>
            /\ Len(data_time) = Len(data_flux)
            /\ Len(data_flux) = Len(data_volt)
            /\ Len(data_time) <= HistoryLimit
            /\ Len(data_time) = (IF step < HistoryLimit THEN step ELSE HistoryLimit))
    /\ [][(prog = "magnet_stream") => HistoryStep]_vars
\* The histories are full, older frames have been cut off, and the frames
\* kept differ in time, flux and voltage.
C29_Witness ==
    /\ prog = "magnet_stream"
    /\ step > HistoryLimit
    /\ Len(data_time) = HistoryLimit
    /\ data_time[1] # data_time[HistoryLimit]
    /\ data_flux[1] # data_flux[HistoryLimit]
    /\ data_volt[1] # data_volt[HistoryLimit]

----------------------------------------------------------------------------
\* The combined flux of magnets 0..k_prime of the row at time t.
CombinedFlux(k, t) ==
    SumSeq([m \in 1..k |->
               field_emitted(magnets[m], COIL_X_1, LS_COIL_X_2, -100 * FP, 100 * FP, t)])
\* Entry (k, i) of the two tables has been written.
Written(k, i) == i < step \/ (i = step /\ k < coil_i /\ pc = "loop")
\* C30: in linear_simulation, fluxes[k][i] is the combined flux of magnets
\* 0..k at time i * time_delta, and voltages[k][i] is
\* (fluxes[k][i] - fluxes[k][i-1]) / time_delta, with voltages[k][0] = 0.
C30_PrefixFluxAndVoltage ==
    prog = "linear_simulation" =>
        \A k \in 1..LS_NUM_MAGNETS : \A i \in 0..(LS_STEPS - 1) :
            Written(k, i) =>
                /\ fluxes[k][i + 1] = CombinedFlux(k, i * time_delta)
                /\ voltages[k][i + 1] =
                       (IF i = 0 THEN 0
                        ELSE Quot((fluxes[k][i + 1] - fluxes[k][i]) * FP, time_delta))
\* The run is over, the last magnet's row has seen the flux rise and fall,
\* and it differs from the first magnet's row.
C30_Witness ==
    /\ prog = "linear_simulation"
    /\ pc = "done"
    /\ Len(times) = LS_STEPS
    /\ \E i \in 1..LS_STEPS : voltages[LS_NUM_MAGNETS][i] > 0
    /\ \E i \in 1..LS_STEPS : voltages[LS_NUM_MAGNETS][i] < 0
    /\ \E i \in 1..LS_STEPS : fluxes[LS_NUM_MAGNETS][i] # fluxes[1][i]
====
